---------------------------- MODULE Spec2Model ----------------------------
(***************************************************************************)
(* A model of src/app.py: the physician dossier pipeline                   *)
(* (run_dossier_pipeline) and the functions it is built from:              *)
(* parse_physician_name, fetch_cms_payments_from_db, lookup_npi,           *)
(* score_author_match and fetch_pubmed_publications.                       *)
(*                                                                         *)
(* Python strings are TLA+ strings; Python's None is the reserved string   *)
(* None, which no input contains.  Money amounts are whole numbers (the    *)
(* code converts the store's decimals with float(); rounding of binary     *)
(* floating point is not modelled).                                        *)
(***************************************************************************)
EXTENDS Integers, Sequences, FiniteSets, TLC

VARIABLES
    pc,              \* position of the run (which statement runs next)
    physician_name,  \* argument of run_dossier_pipeline / parse_physician_name
    state,           \* argument of run_dossier_pipeline: state hint or None
    city,            \* argument of run_dossier_pipeline: city hint or None
    parsed,          \* (first_name, last_name, full_name) of physician_name
    reparsed,        \* parse_physician_name applied to parsed[3]
    db,              \* rows of table cms_payments (one row per GROUP BY group)
    db_status,       \* "ok", "unavailable" (no engine) or "query_error" (execute raises)
    cms_npi,         \* npi argument of the last fetch_cms_payments_from_db call
    cms_rows,        \* rows the last store query returned, in the order returned
    cms_result,      \* value returned by fetch_cms_payments_from_db
    registry,        \* the registry's response to the last lookup_npi call
    npi_result,      \* value returned by lookup_npi
    npi,             \* local npi of run_dossier_pipeline
    result,          \* the dict result of run_dossier_pipeline
    pub_args,        \* arguments of fetch_pubmed_publications
    queries,         \* fetch_pubmed_publications: the strategies built, in order
    qi,              \* index of the next strategy of the for loop
    all_pmids,       \* fetch_pubmed_publications: accumulated identifiers
    returned_ids,    \* identifiers the successful searches returned so far
    fetch_ids,       \* identifiers of the efetch request
    articles,        \* records of the efetch response
    publications,    \* the dict result of fetch_pubmed_publications
    calls,           \* collaborator calls issued so far, in order
    ret,             \* <<value returned by run_dossier_pipeline>>, <<>> before
    score_args,      \* arguments of score_author_match
    score_out,       \* <<value returned by score_author_match>>, <<>> before
    answers          \* the esearch answer to each strategy, where it is fixed

vars == <<pc, physician_name, state, city, parsed, reparsed, db, db_status,
          cms_npi, cms_rows, cms_result, registry, npi_result, npi, result,
          pub_args, queries, qi, all_pmids, returned_ids, fetch_ids, articles,
          publications, calls, ret, score_args, score_out, answers>>

None == "<None>"

\* Python truthiness of an optional string: None and "" are false.
Truthy(s) == s # None /\ s # ""

(***************************************************************************)
(* String helpers (str.lower, str.upper, str.split, " ".join, in, ...)     *)
(***************************************************************************)
\* The letters, upper case and lower case.
Letters ==
    {<<"A", "a">>, <<"B", "b">>, <<"C", "c">>, <<"D", "d">>, <<"E", "e">>,
     <<"F", "f">>, <<"G", "g">>, <<"H", "h">>, <<"I", "i">>, <<"J", "j">>,
     <<"K", "k">>, <<"L", "l">>, <<"M", "m">>, <<"N", "n">>, <<"O", "o">>,
     <<"P", "p">>, <<"Q", "q">>, <<"R", "r">>, <<"S", "s">>, <<"T", "t">>,
     <<"U", "u">>, <<"V", "v">>, <<"W", "w">>, <<"X", "x">>, <<"Y", "y">>,
     <<"Z", "z">>}

LowerTable ==
    [c \in {p[1] : p \in Letters} |-> (CHOOSE p \in Letters : p[1] = c)[2]]

UpperTable ==
    [c \in {p[2] : p \in Letters} |-> (CHOOSE p \in Letters : p[2] = c)[1]]

LowerChar(c) == IF c \in DOMAIN LowerTable THEN LowerTable[c] ELSE c

UpperChar(c) == IF c \in DOMAIN UpperTable THEN UpperTable[c] ELSE c

RECURSIVE LowerChars(_)
LowerChars(s) == IF s = "" THEN "" ELSE LowerChar(Head(s)) \o LowerChars(Tail(s))

RECURSIVE UpperChars(_)
UpperChars(s) == IF s = "" THEN "" ELSE UpperChar(Head(s)) \o UpperChars(Tail(s))

\* sub occurs in s at some position.
Occurs(sub, s) ==
    \E i \in 1..(Len(s) - Len(sub) + 1) : SubSeq(s, i, i + Len(sub) - 1) = sub

\* The word lists of score_author_match.
neuro_keywords ==
    <<"neurosurg", "neurology", "stroke", "cerebrovascular", "neurointervent",
      "neuroradiol", "brain", "aneurysm">>

idaho_institutions == <<"st. luke", "saint luke", "boise", "idaho">>

\* Names, places and affiliations that recur in the searches explored.
AffilBoise == "Neurosurgery, St. Luke's, Boise, ID"

AffilSeattle == "Dept of Medicine, Seattle, WA"

Texts ==
    {"", "Evan", "Joyce", "Evan Joyce", "evan", "joyce", "evan joyce", "JOYCE",
     "Edward", "Smith", "John",
     "Boise", "Seattle", "ID", "WA", "PR", "Idaho", "Washington",
     AffilBoise, AffilSeattle}

\* Lower, upper and substring tables of Texts: each text is converted, and
\* each pair scanned, once; any other argument is computed on the spot.
LowerTexts == [s \in Texts |-> LowerChars(s)]

UpperTexts == [s \in Texts |-> UpperChars(s)]

Needles ==
    {LowerTexts[s] : s \in Texts}
    \union {neuro_keywords[k] : k \in 1..Len(neuro_keywords)}
    \union {idaho_institutions[k] : k \in 1..Len(idaho_institutions)}

Haystacks == {LowerTexts[s] : s \in Texts}

OccursIn == [sub \in Needles |-> {s \in Haystacks : Occurs(sub, s)}]

\* str.lower()
Lower(s) == IF s \in Texts THEN LowerTexts[s] ELSE LowerChars(s)

\* str.upper()
Upper(s) == IF s \in Texts THEN UpperTexts[s] ELSE UpperChars(s)

\* Python's `sub in s` on strings.
Contains(sub, s) ==
    IF sub \in Needles /\ s \in Haystacks THEN s \in OccursIn[sub]
    ELSE Occurs(sub, s)

\* str.rstrip(",")
RECURSIVE RStripComma(_)
RStripComma(s) ==
    IF s # "" /\ SubSeq(s, Len(s), Len(s)) = ","
    THEN RStripComma(SubSeq(s, 1, Len(s) - 1))
    ELSE s

\* s.split(",")[0]
RECURSIVE BeforeComma(_)
BeforeComma(s) ==
    IF s = "" \/ Head(s) = "," THEN "" ELSE Head(s) \o BeforeComma(Tail(s))

\* str.split(): the maximal runs of non-blank characters, in order.
RECURSIVE SplitFrom(_, _)
SplitFrom(s, word) ==
    IF s = "" THEN (IF word = "" THEN <<>> ELSE <<word>>)
    ELSE IF Head(s) = " "
         THEN (IF word = "" THEN <<>> ELSE <<word>>) \o SplitFrom(Tail(s), "")
         ELSE SplitFrom(Tail(s), word \o Head(s))

Split(s) == SplitFrom(s, "")

\* " ".join(parts)
RECURSIVE Join(_)
Join(parts) ==
    IF parts = <<>> THEN ""
    ELSE IF Len(parts) = 1 THEN parts[1]
    ELSE parts[1] \o " " \o Join(Tail(parts))

(***************************************************************************)
(* parse_physician_name                                                    *)
(***************************************************************************)
TITLE_PREFIXES == {"DR", "DR.", "DOCTOR"}

TITLE_SUFFIXES == {"MD", "M.D.", "DO", "D.O.", "PHD", "PH.D.", "MBA", "MS",
                   "FAANS", "FAHA", "FACS", "JR", "JR.", "SR", "SR.", "II",
                   "III", "IV"}

\* while parts and parts[0].upper().rstrip(",") in TITLE_PREFIXES: parts.pop(0)
RECURSIVE DropPrefixes(_)
DropPrefixes(parts) ==
    IF parts # <<>> /\ RStripComma(Upper(parts[1])) \in TITLE_PREFIXES
    THEN DropPrefixes(Tail(parts))
    ELSE parts

\* while parts and parts[-1].upper().rstrip(",") in TITLE_SUFFIXES: parts.pop()
RECURSIVE DropSuffixes(_)
DropSuffixes(parts) ==
    IF parts # <<>> /\ RStripComma(Upper(parts[Len(parts)])) \in TITLE_SUFFIXES
    THEN DropSuffixes(SubSeq(parts, 1, Len(parts) - 1))
    ELSE parts

\* if parts and "," in parts[-1]: parts[-1] = parts[-1].split(",")[0]
TruncateLast(parts) ==
    IF parts # <<>> /\ Contains(",", parts[Len(parts)])
    THEN [parts EXCEPT ![Len(parts)] = BeforeComma(parts[Len(parts)])]
    ELSE parts

\* parse_physician_name without the test on the number of tokens left: a
\* single token is the first name and the surname.
parse_physician_name_SingleSurname(full_name) ==
    IF full_name = "" THEN <<"", "", "">>
    ELSE LET parts == TruncateLast(DropSuffixes(DropPrefixes(Split(full_name))))
         IN  IF parts = <<>>
             THEN <<"", "", "">>
             ELSE <<parts[1], parts[Len(parts)], Join(parts)>>

parse_physician_name(full_name) ==
    IF full_name = "" THEN <<"", "", "">>
    ELSE LET parts == TruncateLast(DropSuffixes(DropPrefixes(Split(full_name))))
         IN  IF Len(parts) < 2
             THEN <<IF parts # <<>> THEN parts[1] ELSE "", "", Join(parts)>>
             ELSE <<parts[1], parts[Len(parts)], Join(parts)>>

(***************************************************************************)
(* Python's sorted(seq, key=...): a stable sort on integer-tuple keys      *)
(***************************************************************************)
RECURSIVE LexLess(_, _)
LexLess(a, b) ==
    IF a = <<>> \/ b = <<>> THEN FALSE
    ELSE IF a[1] < b[1] THEN TRUE
    ELSE IF a[1] > b[1] THEN FALSE
    ELSE LexLess(Tail(a), Tail(b))

\* e goes after every element whose key is not greater than its own.
RECURSIVE InsertStable(_, _)
InsertStable(sorted, e) ==
    IF sorted = <<>> THEN <<e>>
    ELSE IF LexLess(e.key, Head(sorted).key) THEN <<e>> \o sorted
    ELSE <<Head(sorted)>> \o InsertStable(Tail(sorted), e)

RECURSIVE StableSort(_)
StableSort(tagged) ==
    IF tagged = <<>> THEN <<>>
    ELSE InsertStable(StableSort(SubSeq(tagged, 1, Len(tagged) - 1)),
                      tagged[Len(tagged)])

RECURSIVE Vals(_)
Vals(tagged) ==
    IF tagged = <<>> THEN <<>> ELSE <<Head(tagged).val>> \o Vals(Tail(tagged))

SortedBy(seq, Key(_)) ==
    Vals(StableSort([i \in 1..Len(seq) |-> [key |-> Key(seq[i]), val |-> seq[i]]]))

RECURSIVE Sum(_)
Sum(ints) == IF ints = <<>> THEN 0 ELSE Head(ints) + Sum(Tail(ints))

SumOver(seq, Val(_)) == Sum([i \in 1..Len(seq) |-> Val(seq[i])])

Take(seq, n) == SubSeq(seq, 1, IF Len(seq) < n THEN Len(seq) ELSE n)

Range(seq) == {seq[i] : i \in 1..Len(seq)}

\* All orderings of the finite set S.
Orderings(S) ==
    {f \in [1..Cardinality(S) -> S] : \A i, j \in 1..Cardinality(S) : i # j => f[i] # f[j]}

(***************************************************************************)
(* fetch_cms_payments_from_db                                              *)
(***************************************************************************)
\* SQL NULL / Python None in a numeric column.
NullNum == 0 - 1

JNJ == "J&J/Cerenovus"

\* WHERE npi = :npi, or WHERE LOWER(first) = LOWER(:first) AND LOWER(last) = LOWER(:last)
RowMatches(row, first_name, last_name, npi_arg) ==
    IF Truthy(npi_arg)
    THEN row.npi = npi_arg
    ELSE /\ Lower(row.first) = Lower(first_name)
         /\ Lower(row.last) = Lower(last_name)

\* ORDER BY program_year DESC, total_amount DESC (PostgreSQL: NULLs first when descending)
OrderKey(row) ==
    <<0 - row.year, IF row.amount = NullNum THEN 0 ELSE 1, 0 - row.amount>>

\* The row lists the query may return: the matching rows in an order that obeys
\* ORDER BY; rows that tie may come in any order.
QueryResults(table, first_name, last_name, npi_arg) ==
    LET hit == {row \in table : RowMatches(row, first_name, last_name, npi_arg)}
    IN  {rows \in Orderings(hit) :
            \A i, j \in 1..Len(rows) :
                i < j => ~LexLess(OrderKey(rows[j]), OrderKey(rows[i]))}

EmptyCmsResult ==
    [payments_found |-> FALSE,
     total_competitor_amount |-> 0,
     total_jnj_amount |-> 0,
     relationships |-> <<>>,
     physician_info |-> <<>>,
     error |-> None]

IndexOfCompany(totals, company) ==
    IF \E i \in 1..Len(totals) : totals[i].competitor = company
    THEN CHOOSE i \in 1..Len(totals) : totals[i].competitor = company
    ELSE 0

\* "Aggregate by company": the dict company_totals in insertion order.
RECURSIVE AggregateByCompany(_, _)
AggregateByCompany(rows, company_totals) ==
    IF rows = <<>> THEN company_totals
    ELSE LET row == Head(rows)
             company == IF Truthy(row.company) THEN row.company ELSE "Other"
             amount == IF row.amount = NullNum THEN 0 ELSE row.amount
             count == IF row.count = NullNum THEN 0 ELSE row.count
             known == IndexOfCompany(company_totals, company)
             totals == IF known = 0
                       THEN Append(company_totals,
                                   [competitor |-> company,
                                    total_amount |-> 0,
                                    payment_count |-> 0,
                                    is_jnj |-> (company = JNJ)])
                       ELSE company_totals
             k == IF known = 0 THEN Len(totals) ELSE known
         IN  AggregateByCompany(Tail(rows),
                 [totals EXCEPT ![k].total_amount = @ + amount,
                                ![k].payment_count = @ + count])

JnjAmount(data) == IF data.is_jnj THEN data.total_amount ELSE 0

\* CompetitorAmount without the exclusion of the designated organization.
CompetitorAmount_All(data) == data.total_amount

CompetitorAmount(data) == IF data.is_jnj THEN 0 ELSE data.total_amount

\* RelationshipKey without the is_jnj component: amount alone.
RelationshipKey_AmountOnly(x) == <<0 - x.total_amount>>

\* key=lambda x: (x["is_jnj"], -x["total_amount"])
RelationshipKey(x) == <<IF x.is_jnj THEN 1 ELSE 0, 0 - x.total_amount>>

SortRelationships(company_totals) == SortedBy(company_totals, RelationshipKey)

PhysicianInfo(first_row) ==
    [name |-> first_row.name, npi |-> first_row.npi,
     specialty |-> first_row.specialty, city |-> first_row.city,
     state |-> first_row.state]

\* CmsFailure without the diagnostic.
CmsFailure_Silent(diagnostic) == EmptyCmsResult

\* result["error"] = ... on the initial result
CmsFailure(diagnostic) == [EmptyCmsResult EXCEPT !.error = diagnostic]

\* The summary when the aggregation raises: result["payments_found"] and
\* result["physician_info"] were assigned before the loop over the rows, the
\* totals and the groups are assigned after it.
CmsPartial(diagnostic, rows) ==
    [CmsFailure(diagnostic) EXCEPT !.payments_found = TRUE,
                                   !.physician_info = <<PhysicianInfo(rows[1])>>]

\* status is the store's condition, rows what the query returned when it ran.
\* "row_error": a row returned holds a value that float() or int() cannot
\* convert (a NaN count, say), so the loop over the rows raises.
fetch_cms_payments_from_db(status, rows) ==
    IF status = "unavailable"
    THEN CmsFailure("Database not available")
    ELSE IF status = "query_error"
    THEN CmsFailure("query failed")
    ELSE IF rows = <<>> THEN EmptyCmsResult
    ELSE IF status = "row_error"
    THEN CmsPartial("cannot convert", rows)
    ELSE LET company_totals == AggregateByCompany(rows, <<>>)
         IN  [payments_found |-> TRUE,
              total_competitor_amount |-> SumOver(company_totals, CompetitorAmount),
              total_jnj_amount |-> SumOver(company_totals, JnjAmount),
              relationships |-> SortRelationships(company_totals),
              physician_info |-> <<PhysicianInfo(rows[1])>>,
              error |-> None]

(***************************************************************************)
(* lookup_npi                                                              *)
(***************************************************************************)
NEURO_SPECIALTIES ==
    <<"Neurological Surgery", "Neurology", "Interventional Neuroradiology",
      "Vascular Neurology", "Neuroradiology",
      "Endovascular Surgical Neuroradiology", "Vascular Surgery",
      "Interventional Radiology">>

\* A key that a JSON object does not have.  A key whose value is JSON null has
\* the value None.
Missing == "<Missing>"

\* dict.get(key, "") and dict.get(key) on a value that may be Missing
GetOrEmpty(v) == IF v = Missing THEN "" ELSE v

GetOrNone(v) == IF v = Missing THEN None ELSE v

\* practice_addr of an entry with no address: {}
NoAddress ==
    [address_purpose |-> Missing, state |-> Missing, city |-> Missing,
     organization_name |-> Missing]

\* next((a for a in addresses if a.get("address_purpose") == "LOCATION"),
\*      addresses[0] if addresses else {})
PracticeAddr(addresses) ==
    IF \E i \in 1..Len(addresses) : addresses[i].address_purpose = "LOCATION"
    THEN addresses[CHOOSE i \in 1..Len(addresses) :
                       /\ addresses[i].address_purpose = "LOCATION"
                       /\ \A j \in 1..(i - 1) : addresses[j].address_purpose # "LOCATION"]
    ELSE IF addresses # <<>> THEN addresses[1] ELSE NoAddress

\* next((t.get("desc") for t in taxonomies if t.get("primary")), None)
PrimarySpecialty(taxonomies) ==
    IF \E i \in 1..Len(taxonomies) : taxonomies[i].primary
    THEN taxonomies[CHOOSE i \in 1..Len(taxonomies) :
                        /\ taxonomies[i].primary
                        /\ \A j \in 1..(i - 1) : ~taxonomies[j].primary].desc
    ELSE None

\* The scoring of an entry raises AttributeError when a hint is given and the
\* address field it is compared with is JSON null (None.upper(), None.lower()).
EntryRaises(entry, state_hint, city_hint) ==
    LET practice_addr == PracticeAddr(entry.addresses)
    IN  \/ Truthy(state_hint) /\ GetOrEmpty(practice_addr.state) = None
        \/ Truthy(city_hint) /\ GetOrEmpty(practice_addr.city) = None

\* neuro_spec.lower() for each entry of NEURO_SPECIALTIES
NeuroSpecialtiesLower ==
    [k \in 1..Len(NEURO_SPECIALTIES) |-> Lower(NEURO_SPECIALTIES[k])]

\* for neuro_spec in NEURO_SPECIALTIES:
\*     if neuro_spec.lower() in specialty.lower(): score += 100; break
IsNeuroSpecialty(specialty) ==
    LET specialty_lower == Lower(specialty)
    IN  \E k \in 1..Len(NeuroSpecialtiesLower) :
            Contains(NeuroSpecialtiesLower[k], specialty_lower)

\* CandidateScore with the state compared as written, case included.
CandidateScore_CaseSensitive(entry, state_hint, city_hint) ==
    LET practice_addr == PracticeAddr(entry.addresses)
        specialty == PrimarySpecialty(entry.taxonomies)
    IN  100
        + (IF /\ Truthy(state_hint)
              /\ GetOrEmpty(practice_addr.state) = state_hint
           THEN 50 ELSE 0)
        + (IF /\ Truthy(city_hint)
              /\ Contains(Lower(city_hint), Lower(GetOrEmpty(practice_addr.city)))
           THEN 30 ELSE 0)
        + (IF Truthy(specialty) /\ IsNeuroSpecialty(specialty) THEN 100 ELSE 0)

\* CandidateScore without the state bonus.
CandidateScore_NoState(entry, state_hint, city_hint) ==
    LET practice_addr == PracticeAddr(entry.addresses)
        specialty == PrimarySpecialty(entry.taxonomies)
    IN  100
        + (IF /\ Truthy(city_hint)
              /\ Contains(Lower(city_hint), Lower(GetOrEmpty(practice_addr.city)))
           THEN 30 ELSE 0)
        + (IF Truthy(specialty) /\ IsNeuroSpecialty(specialty) THEN 100 ELSE 0)

\* "Score matches - prefer neuro specialties"
CandidateScore(entry, state_hint, city_hint) ==
    LET practice_addr == PracticeAddr(entry.addresses)
        specialty == PrimarySpecialty(entry.taxonomies)
    IN  100
        + (IF /\ Truthy(state_hint)
              /\ Upper(GetOrEmpty(practice_addr.state)) = Upper(state_hint)
           THEN 50 ELSE 0)
        + (IF /\ Truthy(city_hint)
              /\ Contains(Lower(city_hint), Lower(GetOrEmpty(practice_addr.city)))
           THEN 30 ELSE 0)
        + (IF Truthy(specialty) /\ IsNeuroSpecialty(specialty) THEN 100 ELSE 0)

\* the dict appended to scored_matches
ScoredMatch(entry, state_hint, city_hint) ==
    LET practice_addr == PracticeAddr(entry.addresses)
    IN  [npi |-> entry.number,
         name |-> entry.first_name \o " " \o entry.last_name,
         specialty |-> PrimarySpecialty(entry.taxonomies),
         state |-> GetOrNone(practice_addr.state),
         city |-> GetOrNone(practice_addr.city),
         organization |-> GetOrNone(practice_addr.organization_name),
         score |-> CandidateScore(entry, state_hint, city_hint)]

\* MatchKey without reverse=True: ascending score.
MatchKey_Ascending(x) == <<x.score>>

\* key of scored_matches.sort(key=lambda x: x["score"], reverse=True): a stable
\* sort in descending order keeps equal elements in their original order.
MatchKey(x) == <<0 - x.score>>

SortMatches(scored_matches) == SortedBy(scored_matches, MatchKey)

\* result["matches"] = scored_matches[:5]
TopMatches(scored_matches) == Take(scored_matches, 5)

EmptyNpiResult ==
    [found |-> FALSE, npi |-> None, verified_name |-> None, specialty |-> None,
     address |-> <<>>, matches |-> <<>>, source |-> "NPI Registry",
     error |-> None, message |-> None]

\* NpiFailure without the diagnostic.
NpiFailure_Silent(diagnostic) == EmptyNpiResult

\* result["error"] = ...; return result
NpiFailure(diagnostic) == [EmptyNpiResult EXCEPT !.error = diagnostic]

\* response is what the registry did: raised when the request raised (network
\* error, timeout, invalid JSON), else the HTTP status and the "results" list
\* of the body.
lookup_npi(first_name, last_name, state_hint, city_hint, response) ==
    IF response.raised
    THEN NpiFailure("request failed")
    ELSE IF response.status # 200
    THEN NpiFailure("NPI API returned status")
    ELSE IF response.results = <<>>
    THEN [EmptyNpiResult EXCEPT !.message = "No NPI matches found"]
    ELSE IF \E i \in 1..Len(response.results) :
                EntryRaises(response.results[i], state_hint, city_hint)
    THEN NpiFailure("NoneType has no attribute")
    ELSE LET scored_matches ==
                 SortMatches([i \in 1..Len(response.results) |->
                     ScoredMatch(response.results[i], state_hint, city_hint)])
             best == Head(scored_matches)
         IN  [found |-> TRUE,
              npi |-> best.npi,
              verified_name |-> best.name,
              specialty |-> best.specialty,
              address |-> <<[state |-> best.state, city |-> best.city,
                             organization |-> best.organization]>>,
              matches |-> TopMatches(scored_matches),
              source |-> "NPI Registry",
              error |-> None,
              message |-> None]

(***************************************************************************)
(* score_author_match                                                      *)
(***************************************************************************)
US_STATES ==
    {<<"AL", "Alabama">>, <<"AK", "Alaska">>, <<"AZ", "Arizona">>,
     <<"AR", "Arkansas">>, <<"CA", "California">>, <<"CO", "Colorado">>,
     <<"CT", "Connecticut">>, <<"DE", "Delaware">>, <<"FL", "Florida">>,
     <<"GA", "Georgia">>, <<"HI", "Hawaii">>, <<"ID", "Idaho">>,
     <<"IL", "Illinois">>, <<"IN", "Indiana">>, <<"IA", "Iowa">>,
     <<"KS", "Kansas">>, <<"KY", "Kentucky">>, <<"LA", "Louisiana">>,
     <<"ME", "Maine">>, <<"MD", "Maryland">>, <<"MA", "Massachusetts">>,
     <<"MI", "Michigan">>, <<"MN", "Minnesota">>, <<"MS", "Mississippi">>,
     <<"MO", "Missouri">>, <<"MT", "Montana">>, <<"NE", "Nebraska">>,
     <<"NV", "Nevada">>, <<"NH", "New Hampshire">>, <<"NJ", "New Jersey">>,
     <<"NM", "New Mexico">>, <<"NY", "New York">>, <<"NC", "North Carolina">>,
     <<"ND", "North Dakota">>, <<"OH", "Ohio">>, <<"OK", "Oklahoma">>,
     <<"OR", "Oregon">>, <<"PA", "Pennsylvania">>, <<"RI", "Rhode Island">>,
     <<"SC", "South Carolina">>, <<"SD", "South Dakota">>, <<"TN", "Tennessee">>,
     <<"TX", "Texas">>, <<"UT", "Utah">>, <<"VT", "Vermont">>,
     <<"VA", "Virginia">>, <<"WA", "Washington">>, <<"WV", "West Virginia">>,
     <<"WI", "Wisconsin">>, <<"WY", "Wyoming">>}

\* US_STATES.get(key, default)
StateName(key, default) ==
    IF \E p \in US_STATES : p[1] = key
    THEN (CHOOSE p \in US_STATES : p[1] = key)[2]
    ELSE default

AnyIn(words, text) == \E k \in 1..Len(words) : Contains(words[k], text)

\* elif target_first[0].lower() == author_lower.split()[0][0]
\*          if author_lower.split() else False
InitialMatches(target_first, author_lower) ==
    IF Split(author_lower) # <<>>
    THEN Lower(Head(target_first)) = Head(Split(author_lower)[1])
    ELSE FALSE

\* The name part: (points, reasons)
NamePoints(author_name, target_first, target_last) ==
    LET author_lower == IF Truthy(author_name) THEN Lower(author_name) ELSE ""
    IN  IF Contains(Lower(target_last), author_lower)
        THEN IF Contains(Lower(target_first), author_lower)
             THEN <<50, <<"Full name match">> >>
             ELSE IF InitialMatches(target_first, author_lower)
                  THEN <<30, <<"Name initial match">> >>
                  ELSE <<20, <<>> >>
        ELSE <<0, <<>> >>

\* "State matching"
StatePoints(affil_lower, target_state) ==
    IF Truthy(target_state)
    THEN LET state_full == Lower(StateName(Upper(target_state), ""))
         IN  IF \/ Contains(Lower(target_state), affil_lower)
                \/ Contains(state_full, affil_lower)
             THEN <<25, <<"State: " \o target_state>> >>
             ELSE <<0, <<>> >>
    ELSE <<0, <<>> >>

\* "City matching"
CityPoints(affil_lower, target_city) ==
    IF Truthy(target_city) /\ Contains(Lower(target_city), affil_lower)
    THEN <<30, <<"City: " \o target_city>> >>
    ELSE <<0, <<>> >>

KeywordPoints(affil_lower) ==
    IF AnyIn(neuro_keywords, affil_lower)
    THEN <<15, <<"Neuro affiliation">> >> ELSE <<0, <<>> >>

InstitutionPoints(affil_lower) ==
    IF AnyIn(idaho_institutions, affil_lower)
    THEN <<20, <<"Regional institution">> >> ELSE <<0, <<>> >>

\* score += ...; reasons.append(...) over the parts, in order.
RECURSIVE AddPoints(_)
AddPoints(parts) ==
    IF parts = <<>> THEN <<0, <<>> >>
    ELSE LET part == Head(parts)
             rest == AddPoints(Tail(parts))
         IN  <<Head(part) + Head(rest), Head(Tail(part)) \o Head(Tail(rest))>>

\* Returns <<score, reasons>>.
score_author_match(author_name, affiliation, target_first, target_last, target_city, target_state) ==
    LET affil_lower == IF Truthy(affiliation) THEN Lower(affiliation) ELSE ""
        name == NamePoints(author_name, target_first, target_last)
        parts == IF Truthy(affiliation)
                 THEN <<name,
                        StatePoints(affil_lower, target_state),
                        CityPoints(affil_lower, target_city),
                        KeywordPoints(affil_lower),
                        InstitutionPoints(affil_lower)>>
                 ELSE <<name>>
    IN  AddPoints(parts)

(***************************************************************************)
(* fetch_pubmed_publications                                               *)
(***************************************************************************)
\* Value of the max_results parameter in the runs explored (the code's
\* default is 30; the strategy loop and the slice depend only on how the
\* number of identifiers compares with it).
MaxResults == 2

max_results == MaxResults

EmptyPubResult ==
    [publications_found |-> FALSE, total_count |-> 0, verified_count |-> 0,
     publications |-> <<>>, unverified_publications |-> <<>>,
     verification_note |-> None, error |-> None, message |-> None]

\* BuildQueries with the state and city strategies whatever the hints.
BuildQueries_Unconditional(state_hint, city_hint) == <<1, 2, 3, 4>>

\* "Build search queries": the strategies, by number, in the order appended.
BuildQueries(state_hint, city_hint) ==
    <<1>> \o (IF Truthy(state_hint) THEN <<2>> ELSE <<>>)
          \o (IF Truthy(city_hint) THEN <<3>> ELSE <<>>)
          \o <<4>>

\* An XML element's text as the code reads it: Missing when the element is
\* absent (the code then uses ""), None when it is present but empty.
\* Comparing an author raises AttributeError on None.lower().
AuthorRaises(author, first_name, last_name) ==
    \/ GetOrEmpty(author.last) = None
    \/ /\ Lower(last_name) = Lower(GetOrEmpty(author.last))
       /\ Truthy(GetOrEmpty(author.initials))
       /\ GetOrEmpty(author.fore) = None

\* if (last_name.lower() == author_last.lower() and
\*     (first_name.lower() == author_fore.lower() or
\*      first_name[0].upper() == author_init[0].upper() if author_init else False)):
\* the conditional expression binds last, so the "or" is its first operand.
IsTargetAuthor(author, first_name, last_name) ==
    LET author_last == GetOrEmpty(author.last)
        author_fore == GetOrEmpty(author.fore)
        author_init == GetOrEmpty(author.initials)
    IN  /\ Lower(last_name) = Lower(author_last)
        /\ IF Truthy(author_init)
           THEN \/ Lower(first_name) = Lower(author_fore)
                \/ Upper(Head(first_name)) = Upper(Head(author_init))
           ELSE FALSE

\* target_author_affiliation after the loop over the authors: the affiliation
\* of the last entry taken as the target author, None when there is none.
RECURSIVE TargetAffiliation(_, _, _, _)
TargetAffiliation(authors, first_name, last_name, sofar) ==
    IF authors = <<>> THEN sofar
    ELSE TargetAffiliation(Tail(authors), first_name, last_name,
             IF IsTargetAuthor(Head(authors), first_name, last_name)
             THEN GetOrEmpty(Head(authors).affiliation)
             ELSE sofar)

\* The body of the per-article try block raises (and the article is skipped).
ArticleRaises(article, first_name, last_name) ==
    \/ article.parse_fails
    \/ \E i \in 1..Len(article.authors) :
           AuthorRaises(article.authors[i], first_name, last_name)

\* Confidence with the high tier starting at 60.
Confidence_High60(match_score) ==
    IF match_score >= 60 THEN "high"
    ELSE IF match_score >= 30 THEN "medium"
    ELSE "low"

\* "Determine confidence level"
Confidence(match_score) ==
    IF match_score >= 50 THEN "high"
    ELSE IF match_score >= 30 THEN "medium"
    ELSE "low"

\* pub_entry of one article
PubEntry(article, args) ==
    LET affiliation ==
            TargetAffiliation(article.authors, args.first_name, args.last_name, None)
        scored == score_author_match(args.first_name \o " " \o args.last_name,
                                     affiliation, args.first_name, args.last_name,
                                     args.city, args.state)
        match_score == Head(scored)
    IN  [pmid |-> article.pmid,
         year |-> article.year,
         author_count |-> Len(article.authors),
         target_author_affiliation |-> affiliation,
         match_score |-> match_score,
         match_reasons |-> Head(Tail(scored)),
         confidence |-> Confidence(match_score)]

\* "Separate verified (high/medium confidence) from unverified"
IsVerified(pub_entry) == pub_entry.confidence \in {"high", "medium"}

\* PubEntries with no per-article try: the first record that raises ends the
\* processing of the response.
RECURSIVE PubEntries_Abort(_, _)
PubEntries_Abort(arts, args) ==
    IF arts = <<>> THEN <<>>
    ELSE IF ArticleRaises(Head(arts), args.first_name, args.last_name)
    THEN <<>>
    ELSE <<PubEntry(Head(arts), args)>> \o PubEntries_Abort(Tail(arts), args)

\* The entries of the articles that did not raise, in response order.
RECURSIVE PubEntries(_, _)
PubEntries(arts, args) ==
    IF arts = <<>> THEN <<>>
    ELSE (IF ArticleRaises(Head(arts), args.first_name, args.last_name)
          THEN <<>> ELSE <<PubEntry(Head(arts), args)>>)
         \o PubEntries(Tail(arts), args)

\* PubKey without the year: score alone.
PubKey_ScoreOnly(x) == <<0 - x.match_score>>

\* key=lambda x: (-x["match_score"], -(x["year"] or 0))
PubKey(x) == <<0 - x.match_score, 0 - (IF x.year = NullNum THEN 0 ELSE x.year)>>

SortPubs(entries) == SortedBy(entries, PubKey)

\* The result after a 200 efetch response has been processed.
ProcessArticles(res, arts, args) ==
    LET entries == PubEntries(arts, args)
        verified == SortPubs(SelectSeq(entries, IsVerified))
        unverified == SortPubs(SelectSeq(entries, LAMBDA e : ~IsVerified(e)))
    IN  [res EXCEPT
            !.publications = verified,
            !.unverified_publications = unverified,
            !.verified_count = Len(verified),
            !.publications_found = (Len(verified) > 0 \/ Len(unverified) > 0),
            !.verification_note =
                IF Len(verified) > 0 THEN "Found publications with location/specialty match"
                ELSE IF unverified # <<>>
                THEN "Publications found but author identity not verified - review affiliations"
                ELSE None]

\* UpdatePmids keeping the identifiers of the latest strategy only.
UpdatePmids_Replace(pmids_so_far, pmids) == pmids

\* all_pmids.update(pmids)
UpdatePmids(pmids_so_far, pmids) == pmids_so_far \union pmids

\* all_pmids after "for query in queries" over the strategies of order, from
\* pmids, when strategy k is answered responses[k]: the loop breaks once
\* max_results identifiers are held, and a request that raises leaves it.
RECURSIVE AccumulateIds(_, _, _)
AccumulateIds(order, responses, pmids) ==
    IF order = <<>> \/ Cardinality(pmids) >= max_results THEN pmids
    ELSE LET response == responses[Head(order)]
         IN  IF response.raised THEN pmids
             ELSE AccumulateIds(Tail(order), responses,
                                IF response.status = 200
                                THEN UpdatePmids(pmids, response.idlist)
                                ELSE pmids)

\* The identifier lists list(all_pmids)[:max_results] can be: a set has no
\* order of its own, so any max_results members may be the ones kept.
FetchChoices(pmids) ==
    IF Cardinality(pmids) <= max_results THEN {pmids}
    ELSE {ids \in SUBSET pmids : Cardinality(ids) = max_results}

(***************************************************************************)
(* Values the variables have while the code that sets them has not run     *)
(***************************************************************************)
NoResponse == [raised |-> FALSE, status |-> 0, results |-> <<>>]

NoPubArgs ==
    [first_name |-> "", last_name |-> "", city |-> None, state |-> None,
     specialty |-> None]

\* run_dossier_pipeline's result dict as created: every stage entry is None,
\* written <<>>; an entry that has been assigned is <<value>>.
EmptyResult ==
    [npi_data |-> <<>>, cms_data |-> <<>>, education_data |-> <<>>,
     publications |-> <<>>]

UnusedName ==
    /\ physician_name = ""
    /\ parsed = <<"", "", "">>
    /\ reparsed = <<"", "", "">>

UnusedStore ==
    /\ db = {}
    /\ db_status = "ok"
    /\ cms_npi = None
    /\ cms_rows = <<>>
    /\ cms_result = EmptyCmsResult

UnusedRegistry ==
    /\ registry = NoResponse
    /\ npi_result = EmptyNpiResult

UnusedPub ==
    /\ pub_args = NoPubArgs
    /\ queries = <<>>
    /\ qi = 1
    /\ all_pmids = {}
    /\ returned_ids = {}
    /\ fetch_ids = {}
    /\ articles = <<>>
    /\ publications = EmptyPubResult

UnusedPipeline ==
    /\ npi = None
    /\ result = EmptyResult
    /\ calls = <<>>
    /\ ret = <<>>

NoScoreArgs ==
    [author_name |-> None, affiliation |-> None, target_first |-> None,
     target_last |-> None, target_city |-> None, target_state |-> None]

UnusedScore ==
    /\ score_args = NoScoreArgs
    /\ score_out = <<>>
    /\ answers = <<>>

storeVars == <<db, db_status, cms_npi, cms_rows, cms_result>>

scoreVars == <<score_args, score_out>>

pubVars == <<pub_args, queries, qi, all_pmids, returned_ids, fetch_ids,
             articles, publications>>

(***************************************************************************)
(* SpecName: parse_physician_name on raw names, and on its own output      *)
(***************************************************************************)
MaxTokens == 3

NameTokens ==
    {"Dr.", "doctor,", "Evan", "Joyce", "Smith,", "MD", "Jr.,", "MD,PhD", ","}

\* The raw names: up to MaxTokens tokens separated by single blanks.
RawNames ==
    {Join(t) : t \in UNION {[1..n -> NameTokens] : n \in 0..MaxTokens}}

InitName ==
    /\ pc = "name_raw"
    /\ physician_name \in RawNames
    /\ parsed = <<"", "", "">>
    /\ reparsed = <<"", "", "">>
    /\ state = None /\ city = None
    /\ UnusedStore /\ UnusedRegistry /\ UnusedPub /\ UnusedPipeline
    /\ UnusedScore

\* first_name, last_name, full_name = parse_physician_name(physician_name)
NameParse ==
    /\ pc = "name_raw"
    /\ parsed' = parse_physician_name(physician_name)
    /\ pc' = "name_parsed"
    /\ UNCHANGED <<scoreVars, answers, physician_name, state, city, reparsed, storeVars, registry,
                   npi_result, npi, result, pubVars, calls, ret>>

\* parse_physician_name(full_name) on the full name just produced
NameReparse ==
    /\ pc = "name_parsed"
    /\ reparsed' = parse_physician_name(parsed[3])
    /\ pc' = "name_done"
    /\ UNCHANGED <<scoreVars, answers, physician_name, state, city, parsed, storeVars, registry,
                   npi_result, npi, result, pubVars, calls, ret>>

NextName == NameParse \/ NameReparse

SpecName == InitName /\ [][NextName]_vars

\* C5: normalize is idempotent: parsing the full name of a parsed raw name
\* gives the same (first, last, full) again.
C5_Idempotent == pc = "name_done" => reparsed = parsed

(***************************************************************************)
(* SpecPay: fetch_cms_payments_from_db on the tables of one physician      *)
(***************************************************************************)
MaxRows == 3

\* A row of the query's output for the physician with identifier id.
PaymentRow(first, last, id, where, company, amount, year) ==
    [first |-> first, last |-> last, name |-> first \o " " \o last, npi |-> id,
     specialty |-> where[1], city |-> where[2], state |-> where[3],
     company |-> company, amount |-> amount,
     count |-> IF amount = NullNum THEN NullNum ELSE 1, year |-> year]

Boise == <<"Neurological Surgery", "Boise", "ID">>

PayRows ==
    {PaymentRow("Evan", "Joyce", "1003", Boise, company, amount, year) :
        company \in {"Penumbra", "Stryker", JNJ, None},
        amount \in {NullNum, 1, 2},
        year \in {2023, 2024}}

\* GROUP BY leaves one row per (physician, company, year).
SameGroup(r1, r2) ==
    r1.npi = r2.npi /\ r1.company = r2.company /\ r1.year = r2.year

InitPay ==
    /\ pc = "pay_setup"
    /\ UnusedName /\ UnusedStore /\ UnusedRegistry /\ UnusedPub /\ UnusedPipeline
    /\ UnusedScore
    /\ state = None /\ city = None

\* The table as the store holds it: any set of up to MaxRows groups.
StoreInsert ==
    /\ pc = "pay_setup"
    /\ Cardinality(db) < MaxRows
    /\ \E row \in PayRows :
          /\ \A r \in db : ~SameGroup(r, row)
          /\ db' = db \union {row}
    /\ UNCHANGED <<scoreVars, answers, pc, physician_name, state, city, parsed, reparsed, db_status,
                   cms_npi, cms_rows, cms_result, registry, npi_result, npi,
                   result, pubVars, calls, ret>>

\* fetch_cms_payments_from_db(first_name, last_name, npi) by name or by identifier
PayCall ==
    /\ pc = "pay_setup"
    /\ \E status \in {"ok", "unavailable", "query_error", "row_error"},
          id \in {None, "1003"} :
          \E rows \in QueryResults(db, "evan", "JOYCE", id) :
             /\ status = "row_error" => rows # <<>>
             /\ db_status' = status
             /\ cms_npi' = id
             /\ cms_rows' = IF status \in {"ok", "row_error"} THEN rows ELSE <<>>
             /\ cms_result' = fetch_cms_payments_from_db(status, rows)
    /\ pc' = "pay_done"
    /\ UNCHANGED <<scoreVars, answers, physician_name, state, city, parsed, reparsed, db, registry,
                   npi_result, npi, result, pubVars, calls, ret>>

NextPay == StoreInsert \/ PayCall

SpecPay == InitPay /\ [][NextPay]_vars

AmountOf(row) == IF row.amount = NullNum THEN 0 ELSE row.amount

\* C2: conservation: competitor total + designated total is the sum of the
\* amounts of the rows returned (a missing amount is 0), and the competitor
\* total is the sum over the rows of the other organizations alone.
C2_Conservation ==
    pc = "pay_done" /\ db_status = "ok" =>
        /\ cms_result.total_competitor_amount + cms_result.total_jnj_amount
               = SumOver(cms_rows, AmountOf)
        /\ cms_result.total_competitor_amount
               = SumOver(SelectSeq(cms_rows, LAMBDA r : r.company # JNJ), AmountOf)
        /\ cms_result.total_jnj_amount
               = SumOver(SelectSeq(cms_rows, LAMBDA r : r.company = JNJ), AmountOf)

\* C2 witness: rows of the designated organization and of others, in two
\* years, one of them without an amount, have been aggregated.
C2_Witness ==
    /\ pc = "pay_done" /\ db_status = "ok"
    /\ cms_result.total_jnj_amount > 0
    /\ cms_result.total_competitor_amount > 0
    /\ \E i \in 1..Len(cms_rows) : cms_rows[i].amount = NullNum
    /\ \E i, j \in 1..Len(cms_rows) :
           /\ cms_rows[i].company = cms_rows[j].company
           /\ cms_rows[i].year # cms_rows[j].year

\* C10: the groups of the other organizations come first, by non-increasing
\* total; the designated group, if any, is last; at most one group is
\* designated (of a summary whose aggregation did not raise).
C10_GroupOrder ==
    pc = "pay_done" /\ db_status # "row_error" =>
        LET groups == cms_result.relationships
        IN  /\ \A i, j \in 1..Len(groups) :
                   i < j /\ ~groups[j].is_jnj =>
                       /\ ~groups[i].is_jnj
                       /\ groups[i].total_amount >= groups[j].total_amount
            /\ \A i \in 1..Len(groups) : groups[i].is_jnj => i = Len(groups)
            /\ Cardinality({i \in 1..Len(groups) : groups[i].is_jnj}) <= 1
            /\ \A i \in 1..Len(groups) : groups[i].is_jnj <=> groups[i].competitor = JNJ
            /\ {groups[i].competitor : i \in 1..Len(groups)}
                   = {IF Truthy(cms_rows[k].company) THEN cms_rows[k].company ELSE "Other" :
                          k \in 1..Len(cms_rows)}

\* C10 witness: the designated group comes last, after two other groups in
\* descending order, although its total exceeds that of the group before it.
C10_Witness ==
    /\ pc = "pay_done"
    /\ LET groups == cms_result.relationships
       IN  /\ Len(groups) = 3
           /\ groups[3].is_jnj
           /\ groups[3].total_amount > groups[2].total_amount
           /\ groups[1].total_amount > groups[2].total_amount

(***************************************************************************)
(* SpecNpi: lookup_npi on registry responses                               *)
(***************************************************************************)
MaxCandidates == 6

Address(purpose, st, cty) ==
    [address_purpose |-> purpose, state |-> st, city |-> cty,
     organization_name |-> Missing]

Taxonomy(desc, primary) == [desc |-> desc, primary |-> primary]

Entry(number, addresses, taxonomies) ==
    [number |-> number, first_name |-> "EVAN", last_name |-> "JOYCE",
     addresses |-> addresses, taxonomies |-> taxonomies]

\* a neurosurgeon practising in Boise, ID, with a mailing address elsewhere
EntryBoiseNeuro ==
    Entry("1003",
          <<Address("MAILING", "WA", "Seattle"), Address("LOCATION", "ID", "WEST BOISE")>>,
          <<Taxonomy("Neurology", FALSE), Taxonomy("Neurological Surgery", TRUE)>>)

\* a family physician in Seattle, WA, with a mailing address only
EntrySeattle ==
    Entry("2004", <<Address("MAILING", "WA", "Seattle")>>,
          <<Taxonomy("Family Medicine", TRUE)>>)

\* an entry with no address and no primary taxonomy
EntryBare == Entry("4006", <<>>, <<Taxonomy("Vascular Surgery", FALSE)>>)

\* an entry whose practice address has JSON null for state and city
EntryNullAddress ==
    Entry("5007", <<Address("LOCATION", None, None)>>,
          <<Taxonomy("Neurological Surgery", TRUE)>>)

WellFormedEntries == {EntryBoiseNeuro, EntrySeattle, EntryBare}

\* a vascular neurologist in Boise, ID: the primary specialty contains two
\* entries of NEURO_SPECIALTIES ("Neurology" and "Vascular Neurology")
EntryVascular ==
    Entry("6008", <<Address("LOCATION", "ID", "Boise")>>,
          <<Taxonomy("Vascular Neurology", TRUE)>>)

\* the same entry but for the state of the practice address
EntryVascularWA ==
    Entry("7009", <<Address("LOCATION", "WA", "Boise")>>,
          <<Taxonomy("Vascular Neurology", TRUE)>>)

\* Short answers that hold the two entries above.
TwinResponses ==
    {[raised |-> FALSE, status |-> 200, results |-> r] :
        r \in UNION {[1..k -> {EntryVascular, EntryVascularWA, EntrySeattle}] :
                        k \in 1..3}}

RegistryEntries == WellFormedEntries \union {EntryNullAddress}

\* What the registry may answer: a failure, a non-success status, or up to n
\* candidates.
RegistryResponses(n) ==
    {[raised |-> TRUE, status |-> 0, results |-> <<>>],
     [raised |-> FALSE, status |-> 500, results |-> <<>>]}
    \union {[raised |-> FALSE, status |-> 200, results |-> r] :
               r \in UNION {[1..k -> RegistryEntries] : k \in 0..n}}

StateHints == {None, "id"}

CityHints == {None, "Boise"}

InitNpi ==
    /\ pc = "npi_call"
    /\ physician_name = "Evan Joyce"
    /\ parsed = <<"Evan", "Joyce", "Evan Joyce">>
    /\ reparsed = <<"", "", "">>
    /\ state \in StateHints
    /\ city \in CityHints
    /\ UnusedStore /\ UnusedRegistry /\ UnusedPub /\ UnusedPipeline
    /\ UnusedScore

\* npi_result = await lookup_npi(first_name, last_name, state, city)
NpiCall ==
    /\ pc = "npi_call"
    /\ \E response \in RegistryResponses(MaxCandidates) \union TwinResponses :
          /\ registry' = response
          /\ npi_result' = lookup_npi(parsed[1], parsed[2], state, city, response)
    /\ pc' = "npi_done"
    /\ UNCHANGED <<scoreVars, answers, physician_name, state, city, parsed, reparsed, storeVars,
                   npi, result, pubVars, calls, ret>>

NextNpi == NpiCall

SpecNpi == InitNpi /\ [][NextNpi]_vars

\* The registry answered 200 with candidates that can all be scored.
Scorable ==
    /\ ~registry.raised
    /\ registry.status = 200
    /\ registry.results # <<>>
    /\ \A i \in 1..Len(registry.results) :
          ~EntryRaises(registry.results[i], state, city)

\* The scores of the candidates, in source order.
RECURSIVE Scores(_, _, _)
Scores(entries, state_hint, city_hint) ==
    IF entries = <<>> THEN <<>>
    ELSE <<CandidateScore(Head(entries), state_hint, city_hint)>>
         \o Scores(Tail(entries), state_hint, city_hint)

\* The place of candidate i in the descending stable order of the scores:
\* one more than the number of candidates that score higher, or the same and
\* come earlier in the response.
RankOf(scores, i) ==
    1 + Cardinality({j \in 1..Len(scores) :
                        \/ scores[j] > scores[i]
                        \/ scores[j] = scores[i] /\ j < i})

\* C4: of N >= 1 candidates the ranked list is the first min(5, N) of the
\* candidates in descending order of score, ties in source order, and the
\* resolved identity is the first of them.
C4_Ranking ==
    pc = "npi_done" /\ Scorable =>
        LET n == Len(registry.results)
            scores == Scores(registry.results, state, city)
        IN  /\ Len(scores) = n
            /\ npi_result.found
            /\ npi_result.error = None
            /\ Len(npi_result.matches) = IF n < 5 THEN n ELSE 5
            /\ \A i \in 1..n :
                  RankOf(scores, i) <= 5 =>
                      npi_result.matches[RankOf(scores, i)]
                          = ScoredMatch(registry.results[i], state, city)
            /\ npi_result.npi = npi_result.matches[1].npi
            /\ npi_result.verified_name = npi_result.matches[1].name
            /\ npi_result.specialty = npi_result.matches[1].specialty
            /\ npi_result.address =
                   <<[state |-> npi_result.matches[1].state,
                      city |-> npi_result.matches[1].city,
                      organization |-> npi_result.matches[1].organization]>>

\* C4 witness: more than five candidates, with a tie among the best and a
\* better candidate after a worse one, have been ranked.
C4_Witness ==
    /\ pc = "npi_done" /\ Scorable
    /\ Len(registry.results) > 5
    /\ registry.results[1] = EntrySeattle
    /\ registry.results[2] = EntryBoiseNeuro
    /\ registry.results[6] = EntryBoiseNeuro
    /\ registry.results[3] = EntryBare
    /\ state = "id"

(***************************************************************************)
(* The steps of fetch_pubmed_publications                                  *)
(***************************************************************************)
\* How a request ended: it raised, was answered with a status other than 200,
\* or was answered with status 200.
Outcome(response) ==
    IF response.raised THEN "raised"
    ELSE IF response.status # 200 THEN "status"
    ELSE "ok"

\* An entry of the log of the requests issued to the collaborators.
Call(to, outcome) == [to |-> to, strategy |-> 0, outcome |-> outcome]

\* Lines 758-791: the result dict, the early return, the query list.
PubStart ==
    /\ pc = "pub_start"
    /\ publications' = EmptyPubResult
    /\ all_pmids' = {}
    /\ returned_ids' = {}
    /\ qi' = 1
    /\ IF ~Truthy(pub_args.last_name) \/ ~Truthy(pub_args.first_name)
       THEN /\ pc' = "pub_done"
            /\ queries' = <<>>
       ELSE /\ pc' = "pub_search"
            /\ queries' = BuildQueries(pub_args.state, pub_args.city)
    /\ UNCHANGED <<scoreVars, answers, physician_name, state, city, parsed, reparsed, storeVars,
                   registry, npi_result, npi, result, pub_args, fetch_ids,
                   articles, calls, ret>>

\* NextIndex that stays on the strategy until it is answered 200.
NextIndex_Retry(index, response) ==
    IF response.status = 200 THEN index + 1 ELSE index

\* "for query in queries": the next strategy, whatever the answer was.
NextIndex(index, response) == index + 1

\* One iteration of "for query in queries" that does not break: the esearch
\* request and the handling of its response.  The "count" field of the
\* answer is taken to be the number of identifiers it returns.
PubSearch(responses) ==
    /\ pc = "pub_search"
    /\ qi <= Len(queries)
    /\ Cardinality(all_pmids) < max_results
    /\ \E response \in responses :
       /\ calls' = Append(calls, [to |-> "esearch", strategy |-> queries[qi],
                                  outcome |-> Outcome(response)])
       /\ IF response.raised
          THEN /\ publications' = [publications EXCEPT !.error = "request failed"]
               /\ pc' = "pub_done"
               /\ UNCHANGED <<qi, all_pmids, returned_ids>>
          ELSE /\ qi' = NextIndex(qi, response)
               /\ pc' = "pub_search"
               /\ IF response.status = 200
                  THEN /\ all_pmids' = UpdatePmids(all_pmids, response.idlist)
                       /\ returned_ids' = returned_ids \union response.idlist
                       /\ publications' =
                              IF publications.total_count = 0
                              THEN [publications EXCEPT
                                       !.total_count = Cardinality(response.idlist)]
                              ELSE publications
                  ELSE UNCHANGED <<all_pmids, returned_ids, publications>>
    /\ UNCHANGED <<scoreVars, answers, physician_name, state, city, parsed, reparsed, storeVars,
                   registry, npi_result, npi, result, pub_args, queries,
                   fetch_ids, articles, ret>>

\* The loop is over (break, or no query left).
SearchOver ==
    /\ pc = "pub_search"
    /\ (qi > Len(queries) \/ Cardinality(all_pmids) >= max_results)

\* Lines 819-821: nothing accumulated.
PubNoIds ==
    /\ SearchOver
    /\ all_pmids = {}
    /\ publications' = [publications EXCEPT !.message = "No publications found"]
    /\ pc' = "pub_done"
    /\ UNCHANGED <<scoreVars, answers, physician_name, state, city, parsed, reparsed, storeVars,
                   registry, npi_result, npi, result, pub_args, queries, qi,
                   all_pmids, returned_ids, fetch_ids, articles, calls, ret>>

\* Lines 823-939: the efetch request for list(all_pmids)[:max_results], and the
\* scoring, tiering and sorting of the records of its response.
PubFetch(Responses(_)) ==
    /\ SearchOver
    /\ all_pmids # {}
    /\ \E ids \in FetchChoices(all_pmids) :
          /\ fetch_ids' = ids
          /\ \E response \in Responses(ids) :
                /\ articles' = response.articles
                /\ calls' = Append(calls, Call("efetch", Outcome(response)))
                /\ publications' =
                       IF response.raised
                       THEN [publications EXCEPT !.error = "request failed"]
                       ELSE IF response.status = 200
                       THEN ProcessArticles(publications, response.articles, pub_args)
                       ELSE publications
    /\ pc' = "pub_done"
    /\ UNCHANGED <<scoreVars, answers, physician_name, state, city, parsed, reparsed, storeVars,
                   registry, npi_result, npi, result, pub_args, queries, qi,
                   all_pmids, returned_ids, ret>>

(***************************************************************************)
(* SpecPub: fetch_pubmed_publications against the literature index         *)
(***************************************************************************)
PmidOrder == <<"101", "102", "103", "104">>

Pmids == Range(PmidOrder)

\* The identifier lists of the esearch answers: the first n and the last n
\* identifiers of PmidOrder, for n up to retmax (= max_results).
IdLists ==
    {{PmidOrder[k] : k \in 1..n} : n \in 0..max_results}
    \union {{PmidOrder[Len(PmidOrder) + 1 - k] : k \in 1..n} : n \in 0..max_results}

\* esearch answers: a failure, a non-success status, or a list of identifiers.
SearchResponses ==
    {[raised |-> TRUE, status |-> 0, idlist |-> {}],
     [raised |-> FALSE, status |-> 500, idlist |-> {}]}
    \union {[raised |-> FALSE, status |-> 200, idlist |-> ids] : ids \in IdLists}

Author(last, fore, initials, affiliation) ==
    [last |-> last, fore |-> fore, initials |-> initials, affiliation |-> affiliation]

AuthorOther == Author("Smith", "John", "J", "Brain Institute, Boise")

\* The records the index may hold for an identifier.
ArticleVariants(pmid) ==
    {[pmid |-> pmid, year |-> 2024, parse_fails |-> FALSE,
      authors |-> <<AuthorOther,
                    Author("Joyce", "Evan", "E", AffilBoise)>>],
     [pmid |-> pmid, year |-> NullNum, parse_fails |-> FALSE,
      authors |-> <<AuthorOther>>],
     [pmid |-> pmid, year |-> 2020, parse_fails |-> FALSE,
      authors |-> <<Author("JOYCE", "Edward", "EJ", AffilSeattle)>>],
     [pmid |-> pmid, year |-> 2022, parse_fails |-> FALSE,
      authors |-> <<Author("Joyce", "Evan", Missing, Missing), AuthorOther>>],
     [pmid |-> pmid, year |-> 2021, parse_fails |-> TRUE, authors |-> <<>>]}

\* The record lists that hold one record for each identifier of ids, in the
\* order of PmidOrder.
RECURSIVE ArticleLists(_)
ArticleLists(idseq) ==
    IF idseq = <<>> THEN {<<>>}
    ELSE {<<a>> \o rest : a \in ArticleVariants(Head(idseq)),
                          rest \in ArticleLists(Tail(idseq))}

\* efetch answers: a failure (request or XML parsing), a non-success status,
\* or one record for each identifier asked for.
FetchResponses(ids) ==
    {[raised |-> TRUE, status |-> 0, articles |-> <<>>],
     [raised |-> FALSE, status |-> 500, articles |-> <<>>]}
    \union {[raised |-> FALSE, status |-> 200, articles |-> arts] :
               arts \in ArticleLists(SelectSeq(PmidOrder, LAMBDA id : id \in ids))}

\* The city and state hints of the searches: none, a state, a city and its
\* state, a state that US_STATES does not list.
PubHintPairs ==
    {<<None, None>>, <<None, "ID">>, <<"Boise", "ID">>, <<None, "PR">>}

PubArgsSet ==
    {[first_name |-> "Evan", last_name |-> "Joyce", city |-> h[1], state |-> h[2],
      specialty |-> None] : h \in PubHintPairs}

InitPub ==
    /\ pc = "pub_start"
    /\ pub_args \in PubArgsSet
    /\ queries = <<>> /\ qi = 1 /\ all_pmids = {} /\ returned_ids = {}
    /\ fetch_ids = {} /\ articles = <<>> /\ publications = EmptyPubResult
    /\ UnusedName /\ state = None /\ city = None
    /\ UnusedStore /\ UnusedRegistry /\ UnusedPipeline
    /\ UnusedScore

PubSearchAny == PubSearch(SearchResponses)

PubFetchAny == PubFetch(FetchResponses)

NextPub == PubStart \/ PubSearchAny \/ PubNoIds \/ PubFetchAny

SpecPub == InitPub /\ [][NextPub]_vars

\* The detail-fetch request has been issued.
Fetched == \E i \in 1..Len(calls) : calls[i].to = "efetch"

\* Number of entries of a list that carry the identifier pmid.
CountPmid(entries, pmid) ==
    Cardinality({k \in 1..Len(entries) : entries[k].pmid = pmid})

\* C3 (tier partition): every record of the detail response that is processed
\* without a parse failure appears in exactly one of the two returned lists;
\* an entry of the verified list has matchScore >= 30 and is labelled high
\* iff its score is >= 50 and medium iff it is in 30..49; an entry of the
\* unverified list has matchScore < 30 and is labelled low; both lists are
\* present (sequences, possibly empty) in every result.
C3_TierPartition ==
    LET verified == publications.publications
        unverified == publications.unverified_publications
    IN  /\ DOMAIN verified = 1..Len(verified)
        /\ DOMAIN unverified = 1..Len(unverified)
        /\ \A i \in 1..Len(articles) :
              ~ArticleRaises(articles[i], pub_args.first_name, pub_args.last_name)
              => CountPmid(verified, articles[i].pmid)
                   + CountPmid(unverified, articles[i].pmid) = 1
        /\ \A k \in 1..Len(verified) :
              /\ verified[k].match_score >= 30
              /\ verified[k].confidence = "high" <=> verified[k].match_score >= 50
              /\ verified[k].confidence = "medium" <=> verified[k].match_score < 50
        /\ \A k \in 1..Len(unverified) :
              /\ unverified[k].match_score < 30
              /\ unverified[k].confidence = "low"

\* A detail response of two records has been processed and tiered, one record
\* scoring exactly 50 and the other more.
C3_Witness ==
    /\ pc = "pub_done"
    /\ Len(articles) = 2
    /\ Len(publications.publications) = 2
    /\ \E k \in 1..2 : publications.publications[k].match_score = 50
    /\ \E k \in 1..2 : publications.publications[k].match_score > 50

\* C9 as stated (union eligibility): every identifier returned by an executed
\* strategy is in the accumulated set and is part of the detail-fetch request.
C9_UnionEligible ==
    /\ returned_ids \subseteq all_pmids
    /\ Fetched => returned_ids \subseteq fetch_ids

\* C9 as the code has it: every identifier returned by an executed strategy is
\* in the accumulated set (once: it is a set) and nothing else is; the
\* detail-fetch request holds identifiers of the set only, all of them when
\* the set has at most max_results members and exactly max_results of them
\* otherwise.
C9_UnionCapped ==
    /\ returned_ids = all_pmids
    /\ Fetched =>
          /\ fetch_ids \subseteq all_pmids
          /\ Cardinality(all_pmids) <= max_results => fetch_ids = all_pmids
          /\ Cardinality(all_pmids) > max_results
                => Cardinality(fetch_ids) = max_results

\* Two strategies returned identifiers, more than max_results between them,
\* and the detail-fetch request was issued.
C9_Witness ==
    /\ Fetched
    /\ Len(calls) >= 3
    /\ Cardinality(returned_ids) > max_results
    /\ Cardinality(fetch_ids) = max_results

(***************************************************************************)
(* run_dossier_pipeline                                                    *)
(***************************************************************************)
\* InputError as a test for None instead of a test for emptiness.
InputError_NoneOnly(last_name) == last_name = None

\* if not last_name: return {"error": ...}
InputError(last_name) == ~Truthy(last_name)

\* HasStoreIdentity with the identity taken from the store only when the rows
\* include a payment of the designated organization.
HasStoreIdentity_DesignatedOnly(cms) ==
    cms.payments_found /\ cms.total_jnj_amount > 0

\* if cms_result.get("payments_found") and cms_result.get("physician_info")
HasStoreIdentity(cms) == cms.payments_found /\ cms.physician_info # <<>>

\* result["npi_data"] built from the physician_info of the store
StoreIdentity(info) ==
    [found |-> TRUE, npi |-> info.npi, verified_name |-> info.name,
     specialty |-> info.specialty,
     address |-> <<[city |-> info.city, state |-> info.state]>>,
     source |-> "CMS Database"]

\* PubHints without the registry branch: the store's fields or nothing.
PubHints_StoreOnly(first_name, last_name, cms, npi_data) ==
    IF cms.physician_info # <<>>
    THEN LET info == cms.physician_info[1]
         IN  [first_name |-> first_name, last_name |-> last_name,
              city |-> info.city, state |-> info.state,
              specialty |-> info.specialty]
    ELSE [first_name |-> first_name, last_name |-> last_name,
          city |-> None, state |-> None, specialty |-> None]

\* "Get location info from CMS data or NPI data": the arguments of the
\* literature search.
PubHints(first_name, last_name, cms, npi_data) ==
    IF cms.physician_info # <<>>
    THEN LET info == cms.physician_info[1]
         IN  [first_name |-> first_name, last_name |-> last_name,
              city |-> info.city, state |-> info.state,
              specialty |-> info.specialty]
    ELSE IF npi_data.address # <<>>
    THEN LET addr == npi_data.address[1]
         IN  [first_name |-> first_name, last_name |-> last_name,
              city |-> addr.city, state |-> addr.state,
              specialty |-> npi_data.specialty]
    ELSE [first_name |-> first_name, last_name |-> last_name,
          city |-> None, state |-> None, specialty |-> None]

\* FinalResult without the assignment of the literature result.
FinalResult_Unassigned(res, pubmed_result) == res

\* result["publications"] = pubmed_result ... return result
FinalResult(res, pubmed_result) == [res EXCEPT !.publications = <<pubmed_result>>]


\* Lines 955-968: parse the name; an empty surname ends the run.
ParseName ==
    /\ pc = "start"
    /\ \E name \in {parse_physician_name(physician_name)} :
          /\ parsed' = name
          /\ IF InputError(name[2])
             THEN /\ ret' = <<[error |-> "Could not parse physician name",
                               dossier |-> <<>>]>>
                  /\ pc' = "done"
             ELSE /\ ret' = ret
                  /\ pc' = "cms"
    /\ UNCHANGED <<scoreVars, answers, physician_name, state, city, reparsed, storeVars, registry,
                   npi_result, npi, result, pubVars, calls>>

\* Lines 970-988: the store is queried by first and last name (no identifier
\* is passed); a hit gives the identity.
CmsStep ==
    /\ pc = "cms"
    /\ cms_npi' = None
    /\ \E rows \in QueryResults(db, parsed[1], parsed[2], cms_npi') :
          /\ cms_rows' = IF db_status \in {"ok", "row_error"} THEN rows ELSE <<>>
          /\ cms_result' = fetch_cms_payments_from_db(db_status, rows)
    /\ calls' = Append(calls, Call("store", db_status))
    /\ IF HasStoreIdentity(cms_result')
       THEN /\ npi' = cms_result'.physician_info[1].npi
            /\ result' = [result EXCEPT
                             !.cms_data = <<cms_result'>>,
                             !.npi_data = <<StoreIdentity(cms_result'.physician_info[1])>>]
            /\ pc' = "edu"
       ELSE /\ npi' = None
            /\ result' = [result EXCEPT !.cms_data = <<cms_result'>>]
            /\ pc' = "npi"
    /\ UNCHANGED <<scoreVars, answers, physician_name, state, city, parsed, reparsed, db, db_status,
                   registry, npi_result, pubVars, ret>>

\* Lines 989-999: the registry fallback.
NpiStep(responses) ==
    /\ pc = "npi"
    /\ \E response \in responses :
          /\ registry' = response
          /\ npi_result' = lookup_npi(parsed[1], parsed[2], state, city, response)
          /\ calls' = Append(calls, Call("registry", Outcome(response)))
    /\ result' = [result EXCEPT !.npi_data = <<npi_result'>>]
    /\ npi' = IF npi_result'.found THEN npi_result'.npi ELSE None
    /\ pc' = "edu"
    /\ UNCHANGED <<scoreVars, answers, physician_name, state, city, parsed, reparsed, storeVars,
                   pubVars, ret>>

\* Lines 1001-1052: the directory lookup, whose outcome is found or not, and
\* the hints for the literature search.
EduStep ==
    /\ pc = "edu"
    /\ \E found \in BOOLEAN :
          result' = [result EXCEPT !.education_data = <<[found |-> found]>>]
    /\ calls' = Append(calls, Call("directory", "ok"))
    /\ pub_args' = PubHints(parsed[1], parsed[2], cms_result, result.npi_data[1])
    /\ pc' = "pub_start"
    /\ UNCHANGED <<scoreVars, answers, physician_name, state, city, parsed, reparsed, storeVars,
                   registry, npi_result, npi, queries, qi, all_pmids,
                   returned_ids, fetch_ids, articles, publications, ret>>

\* Lines 1060-1072: the literature result is stored and the dossier returned.
Finish ==
    /\ pc = "pub_done"
    /\ result' = FinalResult(result, publications)
    /\ ret' = <<[error |-> None, dossier |-> <<result'>>]>>
    /\ pc' = "done"
    /\ UNCHANGED <<scoreVars, answers, physician_name, state, city, parsed, reparsed, storeVars,
                   registry, npi_result, npi, pubVars, calls>>

(***************************************************************************)
(* Spec: one run of run_dossier_pipeline against its four collaborators    *)
(***************************************************************************)
PipeNames == {"", "Smith", "Dr. MD", "Dr. Evan Joyce, MD", "evan joyce"}

PipeHints == {<<None, None>>, <<"ID", "Boise">>}

Seattle == <<"Family Medicine", "Seattle", "WA">>

\* The payments table: empty; one physician with a competitor and the
\* designated organization; two physicians of the same name; a physician
\* recorded under another first name.
PipeStores ==
    {{},
     {PaymentRow("Evan", "Joyce", "1003", Boise, "Penumbra", 2, 2024),
      PaymentRow("Evan", "Joyce", "1003", Boise, JNJ, 1, 2024)},
     {PaymentRow("Evan", "Joyce", "1003", Boise, "Penumbra", 2, 2024),
      PaymentRow("Evan", "Joyce", "2004", Seattle, "Stryker", 1, 2023)},
     {PaymentRow("E.", "Joyce", "1003", Boise, "Penumbra", 2, 2024)}}

\* The table with the condition of the store.
PipeStoreStates ==
    {<<table, "ok">> : table \in PipeStores}
    \union {<<table, status>> :
               table \in {t \in PipeStores : Cardinality(t) = 2},
               status \in {"unavailable", "query_error"}}

PipeRegistryResponses ==
    {[raised |-> TRUE, status |-> 0, results |-> <<>>],
     [raised |-> FALSE, status |-> 404, results |-> <<>>],
     [raised |-> FALSE, status |-> 200, results |-> <<>>],
     [raised |-> FALSE, status |-> 200, results |-> <<EntryBoiseNeuro>>],
     [raised |-> FALSE, status |-> 200, results |-> <<EntrySeattle, EntryBoiseNeuro>>],
     [raised |-> FALSE, status |-> 200, results |-> <<EntryBare, EntryNullAddress>>]}

PipeSearchResponses ==
    {r \in SearchResponses : r.idlist \in {{}, {"101", "102"}}}

PipeFetchResponses(ids) ==
    {r \in FetchResponses(ids) :
        \A i \in 1..Len(r.articles) :
            r.articles[i].parse_fails \/ r.articles[i].year = 2024}

Init ==
    /\ pc = "start"
    /\ physician_name \in PipeNames
    /\ \E hints \in PipeHints : state = hints[1] /\ city = hints[2]
    /\ \E store \in PipeStoreStates : db = store[1] /\ db_status = store[2]
    /\ parsed = <<"", "", "">> /\ reparsed = <<"", "", "">>
    /\ cms_npi = None /\ cms_rows = <<>> /\ cms_result = EmptyCmsResult
    /\ UnusedRegistry /\ UnusedPub /\ UnusedPipeline
    /\ UnusedScore

PipeNpi == NpiStep(PipeRegistryResponses)

PipeSearch == PubSearch(PipeSearchResponses)

PipeFetch == PubFetch(PipeFetchResponses)

Next ==
    \/ ParseName
    \/ CmsStep
    \/ PipeNpi
    \/ EduStep
    \/ PubStart
    \/ PipeSearch
    \/ PubNoIds
    \/ PipeFetch
    \/ Finish

Spec == Init /\ [][Next]_vars

\* The steps that follow the parsing of the name.
Stages ==
    \/ CmsStep
    \/ PipeNpi
    \/ EduStep
    \/ PubStart
    \/ PipeSearch
    \/ PubNoIds
    \/ PipeFetch
    \/ Finish

\* A run that has started its stages is never suspended for ever: each await
\* completes (every request has a timeout) and the code between two awaits is
\* straight-line.
SpecLive == Spec /\ WF_vars(Stages)

\* A request to the collaborator named has been issued.
Called(to) == \E i \in 1..Len(calls) : calls[i].to = to

\* C1 (source precedence): once the store has been queried, if its name query
\* returned one or more rows then the identity of the result is the one built
\* from the first row and the registry is not queried in the run; the
\* registry is queried only in runs where the store gave no identity.
C1_SourcePrecedence ==
    /\ (pc \notin {"start", "cms"} /\ cms_rows # <<>>) =>
          /\ result.npi_data # <<>>
          /\ result.npi_data[1].found
          /\ result.npi_data[1].source = "CMS Database"
          /\ result.npi_data[1].npi = cms_rows[1].npi
          /\ result.npi_data[1].verified_name = cms_rows[1].name
          /\ result.npi_data[1].specialty = cms_rows[1].specialty
          /\ npi = cms_rows[1].npi
          /\ ~Called("registry")
    /\ Called("registry") =>
          /\ cms_rows = <<>>
          /\ cms_result.physician_info = <<>>

\* A run has ended whose store query returned the rows of two physicians of
\* the same name, none of the designated organization.
C1_Witness ==
    /\ pc = "done"
    /\ Len(cms_rows) = 2
    /\ cms_result.total_jnj_amount = 0
    /\ result.npi_data[1].source = "CMS Database"

\* C6 (input error): when the parsed surname is empty the run has ended with
\* an input-error result and no dossier, and no request has been issued to
\* the store, the registry, the directories or the literature index.
C6_InputError ==
    (pc # "start" /\ parsed[2] = "") =>
       /\ pc = "done"
       /\ calls = <<>>
       /\ ret # <<>>
       /\ ret[1].error # None
       /\ ret[1].dossier = <<>>
       /\ result = EmptyResult

\* A raw name made of a title and a credential has been rejected.
C6_Witness ==
    /\ pc = "done"
    /\ physician_name = "Dr. MD"
    /\ parsed = <<"", "", "">>
    /\ ret # <<>>
    /\ ret[1].error # None

\* The returned dossier has its identity, payment and publication entries,
\* each with a boolean found flag.
Complete ==
    /\ ret = <<[error |-> None, dossier |-> <<result>>]>>
    /\ result.npi_data # <<>>
    /\ result.npi_data[1].found \in BOOLEAN
    /\ result.cms_data # <<>>
    /\ result.cms_data[1].payments_found \in BOOLEAN
    /\ result.publications # <<>>
    /\ result.publications[1].publications_found \in BOOLEAN

\* C7 (soft failure): a run whose raw name has a surname, whatever the
\* collaborators answer (failures, non-success statuses, empty responses),
\* comes to its end and returns a dossier whose identity, payment and
\* publication entries are present with their found flags.
C7_SoftFailure == (pc = "cms") ~> (pc = "done" /\ Complete)

\* A run has ended in which the store was unavailable, the registry request
\* failed and the literature request failed.
C7_Witness ==
    /\ pc = "done"
    /\ db_status = "unavailable"
    /\ Called("registry")
    /\ registry.raised
    /\ publications.error # None
    /\ Complete

\* C8 as stated (payment query policy): in a finished run with a working
\* store, when an identifier is known for the resolved identity the rows
\* aggregated are exactly the rows of the table that carry it, and when none
\* is known they are the rows selected by first and last name.
C8_QueryPolicy ==
    (pc = "done" /\ parsed[2] # "" /\ db_status = "ok") =>
       IF npi # None
       THEN Range(cms_rows) = {row \in db : row.npi = npi}
       ELSE Range(cms_rows) = {row \in db : RowMatches(row, parsed[1], parsed[2], None)}

\* The arguments of the literature search have been chosen.
HintsChosen == pc \in {"pub_start", "pub_search", "pub_done", "done"} /\ parsed[2] # ""

\* C11 (hint threading): the city, state and specialty passed to the
\* literature search are those of the first store row when the store gave the
\* identity, otherwise those of the registry's best candidate when the
\* registry lookup succeeded, and are all None when neither gave an identity;
\* the names passed are the parsed first and last name.
C11_HintThreading ==
    HintsChosen =>
       /\ pub_args.first_name = parsed[1]
       /\ pub_args.last_name = parsed[2]
       /\ IF cms_rows # <<>>
          THEN /\ pub_args.city = cms_rows[1].city
               /\ pub_args.state = cms_rows[1].state
               /\ pub_args.specialty = cms_rows[1].specialty
          ELSE IF Called("registry") /\ npi_result.found
          THEN /\ pub_args.city = npi_result.matches[1].city
               /\ pub_args.state = npi_result.matches[1].state
               /\ pub_args.specialty = npi_result.matches[1].specialty
          ELSE /\ pub_args.city = None
               /\ pub_args.state = None
               /\ pub_args.specialty = None

\* A run has ended in which the store had no row for the name and the hints
\* came from the registry's best candidate.
C11_Witness ==
    /\ pc = "done"
    /\ cms_rows = <<>>
    /\ npi_result.found
    /\ pub_args.city = "WEST BOISE"
    /\ pub_args.state = "ID"
    /\ pub_args.specialty = "Neurological Surgery"

\* C12 as stated (stage ordering): in the order of the requests of a run, the
\* registry request (identity resolution) comes before the store's payment
\* query, the payment query comes before the literature requests, and the
\* payment query is made with the identifier that resolution produced.
C12_StageOrdering ==
    /\ \A i, j \in 1..Len(calls) :
          /\ (calls[i].to = "registry" /\ calls[j].to = "store") => i < j
          /\ (calls[i].to = "store" /\ calls[j].to \in {"esearch", "efetch"}) => i < j
    /\ (pc = "done" /\ parsed[2] # "") => cms_npi = npi

\* C13 (registry failures are values): when the registry request raises
\* (network error, timeout) or is answered with a status other than 200, the
\* lookup returns a result with found false, no identifier, no candidate and
\* a diagnostic string.
C13_RegistryFailure ==
    (pc = "npi_done" /\ (registry.raised \/ registry.status # 200)) =>
       /\ ~npi_result.found
       /\ npi_result.npi = None
       /\ npi_result.matches = <<>>
       /\ npi_result.address = <<>>
       /\ npi_result.error # None

\* The lookup has returned after the registry answered with status 500.
C13_Witness ==
    /\ pc = "npi_done"
    /\ ~registry.raised
    /\ registry.status = 500
    /\ ~npi_result.found
    /\ npi_result.error # None

\* C14 (payments store outcomes): when the store is unavailable or the query
\* fails, the summary has payments_found false and a diagnostic string; when
\* the query succeeds and returns no row, the summary has payments_found
\* false, both totals zero, no group, no physician and no diagnostic.
C14_StoreOutcomes ==
    pc = "pay_done" =>
       /\ db_status \in {"unavailable", "query_error"} =>
             /\ ~cms_result.payments_found
             /\ cms_result.error # None
       /\ (db_status = "ok" /\ cms_rows = <<>>) =>
             /\ ~cms_result.payments_found
             /\ cms_result.total_competitor_amount = 0
             /\ cms_result.total_jnj_amount = 0
             /\ cms_result.relationships = <<>>
             /\ cms_result.physician_info = <<>>
             /\ cms_result.error = None

\* The query failed on a table that holds rows of the physician.
C14_Witness ==
    /\ pc = "pay_done"
    /\ db_status = "query_error"
    /\ db # {}
    /\ ~cms_result.payments_found
    /\ cms_result.error # None

\* A request to the literature index has failed: it raised, or it was
\* answered with a status other than 200.
LiteratureFailed ==
    \E i \in 1..Len(calls) :
        /\ calls[i].to \in {"esearch", "efetch"}
        /\ calls[i].outcome \in {"raised", "status"}

\* C15 as stated (literature-index failures carry a diagnostic): when a search
\* request or the detail-fetch request has failed, the result returned by the
\* publication stage is empty (nothing found, both lists empty) and carries a
\* diagnostic string.
C15_FailureDiagnostic ==
    (pc = "pub_done" /\ LiteratureFailed) =>
       /\ ~publications.publications_found
       /\ publications.publications = <<>>
       /\ publications.unverified_publications = <<>>
       /\ publications.error # None

\* The detail-fetch request was answered with status 200.
FetchAnswered ==
    \E i \in 1..Len(calls) : calls[i].to = "efetch" /\ calls[i].outcome = "ok"

\* The records of the detail response whose processing does not fail.
SoundArticles ==
    SelectSeq(articles,
              LAMBDA a : ~ArticleRaises(a, pub_args.first_name, pub_args.last_name))

\* C16 (per-record isolation): the two lists, the verified count and the found
\* flag returned for a detail response are those that the same response
\* without its failing records gives: a failing record is left out and takes
\* no other record with it.
C16_RecordIsolation ==
    (pc = "pub_done" /\ FetchAnswered) =>
       LET alone == ProcessArticles(EmptyPubResult, SoundArticles, pub_args)
       IN  /\ publications.publications = alone.publications
           /\ publications.unverified_publications = alone.unverified_publications
           /\ publications.verified_count = alone.verified_count
           /\ publications.publications_found = alone.publications_found
           /\ Len(publications.publications)
                + Len(publications.unverified_publications) = Len(SoundArticles)

\* A response whose first record fails and whose second record is sound has
\* been processed, and the second record is returned.
C16_Witness ==
    /\ pc = "pub_done"
    /\ FetchAnswered
    /\ Len(articles) = 2
    /\ ArticleRaises(articles[1], pub_args.first_name, pub_args.last_name)
    /\ Len(SoundArticles) = 1
    /\ Len(publications.publications) = 1
    /\ publications.publications[1].pmid = articles[2].pmid

\* entry a may stand before entry b in a returned list: a's score is higher,
\* or the scores are equal and a's year is not earlier than b's, a missing
\* year being earlier than every year.
MayPrecede(a, b) ==
    \/ a.match_score > b.match_score
    \/ /\ a.match_score = b.match_score
       /\ \/ b.year = NullNum
          \/ a.year # NullNum /\ a.year >= b.year

Ordered(entries) ==
    \A i, j \in 1..Len(entries) : i < j => MayPrecede(entries[i], entries[j])

\* C17 (list order): the verified list and the unverified list of every
\* result are in non-increasing order of matchScore and, among equal scores,
\* in non-increasing order of year, entries without a year coming after those
\* with one.
C17_ListOrder ==
    /\ Ordered(publications.publications)
    /\ Ordered(publications.unverified_publications)

\* Two records of equal score were returned in the order opposite to that of
\* the response, the one without a year after the one with a year.
C17_Witness ==
    /\ pc = "pub_done"
    /\ Len(articles) = 2
    /\ Len(publications.publications) = 2
    /\ publications.publications[1].match_score = publications.publications[2].match_score
    /\ publications.publications[1].year # NullNum
    /\ publications.publications[2].year = NullNum
    /\ publications.publications[1].pmid = articles[2].pmid

\* The state hint is given and equals the candidate's practice state,
\* ignoring case.
StateHit(m) ==
    Truthy(state) /\ m.state # None /\ Upper(m.state) = Upper(state)

\* The city hint is given and is part of the candidate's practice city,
\* ignoring case.
CityHit(m) ==
    Truthy(city) /\ m.city # None /\ Contains(Lower(city), Lower(m.city))

\* The candidate's primary specialty contains an entry of NEURO_SPECIALTIES,
\* ignoring case.
SpecialtyHit(m) ==
    /\ m.specialty # None
    /\ \E k \in 1..Len(NEURO_SPECIALTIES) :
           Contains(Lower(NEURO_SPECIALTIES[k]), Lower(m.specialty))

\* The practice address of the candidates in use: that of the LOCATION address
\* when there is one.
PracticeOf(number) ==
    CASE number = "1003" -> <<"ID", "WEST BOISE">>
      [] number = "2004" -> <<"WA", "Seattle">>
      [] number = "4006" -> <<None, None>>
      [] number = "5007" -> <<None, None>>
      [] number = "6008" -> <<"ID", "Boise">>
      [] number = "7009" -> <<"WA", "Boise">>

\* C18 (registry candidate score): the score of each returned candidate is
\* 100, plus 50 iff the state hint is given and equals its practice state
\* ignoring case, plus 30 iff the city hint is given and is a substring of its
\* practice city ignoring case, plus 100, once, iff its primary specialty
\* contains an entry of the target-specialty list ignoring case; the practice
\* state and city are those of its LOCATION address.
C18_CandidateScore ==
    pc = "npi_done" =>
       \A k \in 1..Len(npi_result.matches) :
          LET m == npi_result.matches[k]
          IN  /\ <<m.state, m.city>> = PracticeOf(m.npi)
              /\ m.score = 100 + (IF StateHit(m) THEN 50 ELSE 0)
                               + (IF CityHit(m) THEN 30 ELSE 0)
                               + (IF SpecialtyHit(m) THEN 100 ELSE 0)

\* With the hints "id" and "Boise", a candidate whose specialty contains two
\* entries of the list scored 280, and a candidate of another state, city and
\* specialty scored 100.
C18_Witness ==
    /\ pc = "npi_done"
    /\ state = "id"
    /\ city = "Boise"
    /\ \E k \in 1..Len(npi_result.matches) :
          /\ npi_result.matches[k].npi = "6008"
          /\ npi_result.matches[k].specialty = "Vascular Neurology"
          /\ npi_result.matches[k].score = 280
    /\ \E k \in 1..Len(npi_result.matches) :
          /\ npi_result.matches[k].npi = "2004"
          /\ npi_result.matches[k].score = 100

\* Two returned candidates that are the same but for the practice state.
SameButState(x, y) ==
    /\ x.name = y.name
    /\ x.specialty = y.specialty
    /\ x.city = y.city
    /\ x.organization = y.organization

\* C19 (state dominance): when a state hint is given, of two candidates that
\* are the same but for the practice state, one matching the hint and the
\* other not, the matching one stands before the other in the ranked list,
\* wherever they stood in the registry's answer; and of at most five
\* candidates none is left out of the ranked list.
C19_StateDominance ==
    (pc = "npi_done" /\ npi_result.found) =>
       /\ \A a, b \in 1..Len(npi_result.matches) :
             (/\ SameButState(npi_result.matches[a], npi_result.matches[b])
              /\ StateHit(npi_result.matches[a])
              /\ ~StateHit(npi_result.matches[b])) => a < b
       /\ Len(registry.results) <= 5 =>
             \A i \in 1..Len(registry.results) :
                \E k \in 1..Len(npi_result.matches) :
                   npi_result.matches[k].npi = registry.results[i].number

\* The registry answered with the non-matching twin first and the matching
\* twin second, and the ranked list has them in the opposite order.
C19_Witness ==
    /\ pc = "npi_done"
    /\ state = "id"
    /\ registry.results = <<EntryVascularWA, EntryVascular>>
    /\ Len(npi_result.matches) = 2
    /\ npi_result.matches[1].npi = "6008"
    /\ npi_result.matches[2].npi = "7009"
    /\ npi_result.matches[1].score = npi_result.matches[2].score + 50

\* The tokens of the raw name that are left once the leading titles and the
\* trailing credentials are dropped.
Remaining == DropSuffixes(DropPrefixes(Split(physician_name)))

\* C20 (normalize is total): every raw name has a result of three strings;
\* when fewer than two tokens are left after the titles and credentials are
\* dropped, last is empty and first and full are both the token left (up to
\* its first comma), or empty when none is left; the empty name gives three
\* empty strings and a name of one token never has a surname.
C20_NormalizeTotal ==
    pc \in {"name_parsed", "name_done"} =>
       /\ Len(parsed) = 3
       /\ \A k \in 1..3 : parsed[k] \in STRING
       /\ Len(Remaining) < 2 =>
             /\ parsed[2] = ""
             /\ parsed[1] = parsed[3]
             /\ parsed[1] = IF Remaining = <<>> THEN ""
                            ELSE BeforeComma(Remaining[1])
       /\ physician_name = "" => parsed = <<"", "", "">>
       /\ Len(Split(physician_name)) = 1 => parsed[2] = ""

\* A title, one name and a credential have been parsed: the name is the first
\* name and there is no surname.
C20_Witness ==
    /\ pc = "name_parsed"
    /\ physician_name = "Dr. Joyce MD"
    /\ parsed = <<"Joyce", "", "Joyce">>

\* C21 (name-match points): an entry of a record in which no author entry
\* matches the target (its target_author_affiliation is None) has a score
\* below 30 and stands in the unverified list; the verified list holds no such
\* entry.
C21_NamePoints ==
    /\ \A k \in 1..Len(publications.publications) :
          publications.publications[k].target_author_affiliation # None
    /\ \A k \in 1..Len(publications.unverified_publications) :
          publications.unverified_publications[k].target_author_affiliation = None
             => publications.unverified_publications[k].match_score < 30

\* The entries of both returned lists.
AllEntries == publications.publications \o publications.unverified_publications

\* A field of an author entry that is present and not empty.
Present(v) == v # Missing /\ v # None /\ v # ""

\* The author entry matches the target as stated: same last name ignoring
\* case, and same fore name ignoring case or same first initial.
NamesTarget(author, first_name, last_name) ==
    /\ Present(author.last)
    /\ Lower(author.last) = Lower(last_name)
    /\ \/ Present(author.fore) /\ Lower(author.fore) = Lower(first_name)
       \/ Present(author.initials)
            /\ Upper(Head(author.initials)) = Upper(Head(first_name))

\* C22 (target-author location): every record of the detail response whose
\* elements parse has an entry (no author entry makes it raise), and the
\* entry's target_author_affiliation is set iff one of the record's author
\* entries matches the target: same last name ignoring case, and same fore
\* name ignoring case or same first initial, whichever fields are present.
C22_TargetLocation ==
    (Fetched /\ publications.error = None) =>
       \A i \in 1..Len(articles) :
          ~articles[i].parse_fails =>
             \E k \in 1..Len(AllEntries) :
                /\ AllEntries[k].pmid = articles[i].pmid
                /\ AllEntries[k].target_author_affiliation # None
                     <=> \E a \in 1..Len(articles[i].authors) :
                            NamesTarget(articles[i].authors[a],
                                        pub_args.first_name, pub_args.last_name)

(***************************************************************************)
(* SpecScore: score_author_match on its own                                *)
(***************************************************************************)
\* The compared author strings: none, the target's name in several forms,
\* the surname alone or with another first name, another author.
ScoreAuthors ==
    {None, "", "Evan Joyce", "evan joyce", "E Joyce", "Joyce", "John Joyce",
     "John Smith"}

\* The affiliation texts: none, a neurosurgery department in Boise, Idaho, a
\* department of medicine in Seattle, a stroke centre, a bare street address.
ScoreAffiliations ==
    {None, "", AffilBoise, AffilSeattle, "Stroke Center, Spokane",
     "12 Main Street"}

\* The city and state hints, as <<city, state>>.
ScoreHintPairs == PubHintPairs \union {<<"Seattle", "WA">>, <<"Boise", None>>}

ScoreArgsSet ==
    {[author_name |-> a, affiliation |-> f, target_first |-> "Evan",
      target_last |-> "Joyce", target_city |-> h[1], target_state |-> h[2]] :
        a \in ScoreAuthors, f \in ScoreAffiliations, h \in ScoreHintPairs}

InitScore ==
    /\ pc = "score_start"
    /\ score_args \in ScoreArgsSet
    /\ score_out = <<>>
    /\ answers = <<>>
    /\ UnusedName /\ state = None /\ city = None
    /\ UnusedStore /\ UnusedRegistry /\ UnusedPub /\ UnusedPipeline

\* One call of score_author_match.
ScoreCall ==
    /\ pc = "score_start"
    /\ score_out' = <<score_author_match(score_args.author_name,
                                      score_args.affiliation,
                                      score_args.target_first,
                                      score_args.target_last,
                                      score_args.target_city,
                                      score_args.target_state)>>
    /\ pc' = "score_done"
    /\ UNCHANGED <<score_args, answers, physician_name, state, city, parsed, reparsed,
                   storeVars, registry, npi_result, npi, result, pubVars,
                   calls, ret>>

NextScore == ScoreCall

SpecScore == InitScore /\ [][NextScore]_vars

\* The points the reason stands for: a name reason includes the 20 points of
\* the surname.
ReasonPoints(reason) ==
    CASE reason = "Full name match" -> 50
      [] reason = "Name initial match" -> 30
      [] SubSeq(reason, 1, 7) = "State: " -> 25
      [] SubSeq(reason, 1, 6) = "City: " -> 30
      [] reason = "Neuro affiliation" -> 15
      [] reason = "Regional institution" -> 20
      [] OTHER -> 0

\* C23 (matchScore accounting): the score is the sum of the points of the
\* recorded reasons (so every component that gave points has its reason), no
\* reason is recorded twice, and the score is 0 iff no reason is recorded.
C23_ScoreAccounting ==
    pc = "score_done" =>
       LET score == score_out[1][1]
           reasons == score_out[1][2]
       IN  /\ score = Sum([k \in 1..Len(reasons) |-> ReasonPoints(reasons[k])])
           /\ \A j, k \in 1..Len(reasons) : j # k => reasons[j] # reasons[k]
           /\ score = 0 <=> reasons = <<>>

\* The search requests issued so far, in order.
SearchCalls == SelectSeq(calls, LAMBDA c : c.to = "esearch")

\* The strategies the hints make applicable, in the stated order.
Applicable ==
    SelectSeq(<<1, 2, 3, 4>>,
              LAMBDA k : \/ k \in {1, 4}
                         \/ k = 2 /\ Truthy(pub_args.state)
                         \/ k = 3 /\ Truthy(pub_args.city))

SearchRaised ==
    \E i \in 1..Len(SearchCalls) : SearchCalls[i].outcome = "raised"

\* The requests issued are the first applicable strategies, in order; when
\* the stage has ended with no search request raising, either every
\* applicable strategy was issued or the set has reached max_results.
StrategyOrder ==
    /\ Len(SearchCalls) <= Len(Applicable)
    /\ \A i \in 1..Len(SearchCalls) : SearchCalls[i].strategy = Applicable[i]
    /\ (pc = "pub_done" /\ ~SearchRaised) =>
          \/ Len(SearchCalls) = Len(Applicable)
          \/ Cardinality(all_pmids) >= max_results

\* A search request is issued only while the set is below max_results.
IssuedBelowCap ==
    (Len(calls') > Len(calls) /\ calls'[Len(calls')].to = "esearch")
       => Cardinality(all_pmids) < max_results

\* C24 (query-strategy state machine): the strategies are issued in the order
\* 1, 2 (only with a state hint), 3 (only with a city hint), 4; a strategy is
\* issued only while the accumulated set is below max_results; and a stage
\* that ends without a request raising has issued every applicable strategy,
\* strategy 4 included, unless the set reached max_results.
C24_StrategyMachine == []StrategyOrder /\ [][IssuedBelowCap]_vars

\* With both hints given, strategies 1 and 2 were issued and answered, the
\* set reached max_results, and strategies 3 and 4 were not issued.
C24_Witness ==
    /\ pc = "pub_done"
    /\ Len(Applicable) = 4
    /\ Len(SearchCalls) = 2
    /\ SearchCalls[1].outcome = "ok" /\ SearchCalls[2].outcome = "ok"
    /\ Cardinality(all_pmids) >= max_results
    /\ Fetched

(***************************************************************************)
(* SpecOrder: the strategy loop with one fixed answer for each strategy,   *)
(* the strategies taken in any order                                       *)
(***************************************************************************)
\* The answers a strategy may have: a non-success status, or 200 with no
\* identifier, one identifier, or max_results identifiers.
OrderAnswers ==
    {r \in SearchResponses :
        /\ ~r.raised
        /\ r.status = 200 =>
              \/ Cardinality(r.idlist) \in {0, max_results}
              \/ r.idlist = {PmidOrder[1]}}

OrderArgsSet == {a \in PubArgsSet : Truthy(a.city) <=> Truthy(a.state)}

\* The detail fetch of these runs is answered with a non-success status.
OrderFetchResponses(ids) == {r \in FetchResponses(ids) : r.status = 500}

InitOrder ==
    /\ pc = "pub_search"
    /\ pub_args \in OrderArgsSet
    /\ answers \in [1..4 -> OrderAnswers]
    /\ queries \in Orderings(Range(BuildQueries(pub_args.state, pub_args.city)))
    /\ qi = 1 /\ all_pmids = {} /\ returned_ids = {}
    /\ fetch_ids = {} /\ articles = <<>> /\ publications = EmptyPubResult
    /\ UnusedName /\ state = None /\ city = None
    /\ UnusedStore /\ UnusedRegistry
    /\ npi = None /\ result = EmptyResult /\ calls = <<>> /\ ret = <<>>
    /\ score_args = NoScoreArgs /\ score_out = <<>>

OrderSearch == qi <= Len(queries) /\ PubSearch({answers[queries[qi]]})

OrderFetch == PubFetch(OrderFetchResponses)

NextOrder == OrderSearch \/ PubNoIds \/ OrderFetch

SpecOrder == InitOrder /\ [][NextOrder]_vars

SoundEntries ==
    SelectSeq(registry.results, LAMBDA e : ~EntryRaises(e, state, city))

\* C26 (per-candidate isolation in the registry): when the registry answers
\* 200 and some of its candidates can be scored, the lookup finds an identity
\* and, of at most five such candidates, each one is in the ranked list,
\* whatever the other candidates of the answer are.
C26_CandidateIsolation ==
    (pc = "npi_done" /\ ~registry.raised /\ registry.status = 200
       /\ SoundEntries # <<>>) =>
       /\ npi_result.found
       /\ Len(SoundEntries) <= 5 =>
             \A i \in 1..Len(SoundEntries) :
                \E k \in 1..Len(npi_result.matches) :
                   npi_result.matches[k].npi = SoundEntries[i].number

\* C27 (no partial success in payments): a summary that carries a diagnostic
\* has payments_found false, no physician, both totals zero and no group, and
\* is not taken as a direct-store identity.
C27_NoPartialSuccess ==
    (pc = "pay_done" /\ cms_result.error # None) =>
       /\ ~cms_result.payments_found
       /\ cms_result.physician_info = <<>>
       /\ cms_result.total_competitor_amount = 0
       /\ cms_result.total_jnj_amount = 0
       /\ cms_result.relationships = <<>>
       /\ ~HasStoreIdentity(cms_result)

\* Record i of the detail response parses and none of its author entries
\* matches the target.
Stranger(i) ==
    /\ ~ArticleRaises(articles[i], pub_args.first_name, pub_args.last_name)
    /\ \A a \in 1..Len(articles[i].authors) :
          ~NamesTarget(articles[i].authors[a],
                       pub_args.first_name, pub_args.last_name)

\* Every entry returned is labelled high, and the unverified list is empty.
EveryEntryHigh ==
    /\ publications.unverified_publications = <<>>
    /\ \A k \in 1..Len(publications.publications) :
          publications.publications[k].confidence = "high"

\* C28 (tier reachability): the low tier is reached by the responses that
\* favour it most: when the detail response holds a record none of whose
\* authors matches the target (no name and no affiliation to earn points
\* from), an entry is labelled low and the unverified list is not empty.
C28_TierReachability ==
    (Fetched /\ publications.error = None /\ \E i \in 1..Len(articles) : Stranger(i))
       => /\ publications.unverified_publications # <<>>
          /\ \E k \in 1..Len(AllEntries) : AllEntries[k].confidence = "low"

\* The state hint is an abbreviation that US_STATES does not list.
UnlistedState(abbr) == Truthy(abbr) /\ \A p \in US_STATES : p[1] # Upper(abbr)

\* The reasons returned hold a state reason.
StateCredited ==
    \E k \in 1..Len(score_out[1][2]) : SubSeq(score_out[1][2][k], 1, 7) = "State: "

\* C29 (state bonus for an unlisted state): when the state hint is not in
\* US_STATES and the affiliation is not empty, the state bonus is credited
\* iff the abbreviation occurs in the affiliation, ignoring case.
C29_UnlistedState ==
    (pc = "score_done" /\ UnlistedState(score_args.target_state)
       /\ Truthy(score_args.affiliation)) =>
       (StateCredited <=> Contains(Lower(score_args.target_state),
                                   Lower(score_args.affiliation)))

\* Number of requests of the log sent to a collaborator (for the searches,
\* with the given strategy).
CountCalls(to, strategy) ==
    Cardinality({i \in 1..Len(calls) :
                    calls[i].to = to /\ calls[i].strategy = strategy})

\* The request to a collaborator failed or was answered with a non-success
\* status.
Failed(to) ==
    \E i \in 1..Len(calls) : calls[i].to = to /\ calls[i].outcome # "ok"

\* C30 (no retries): in a run of the pipeline the store query, the registry
\* search, the detail fetch and each search strategy are issued at most once,
\* also after a failure; and a finished run whose store query, registry
\* search or detail fetch failed returns a dossier in which that stage's
\* entry is present and marked not found.
C30_NoRetries ==
    /\ \A to \in {"store", "registry", "efetch"} : CountCalls(to, 0) <= 1
    /\ \A k \in 1..4 : CountCalls("esearch", k) <= 1
    /\ pc = "done" =>
          /\ Failed("store") =>
                Complete /\ ~result.cms_data[1].payments_found
          /\ Failed("registry") =>
                Complete /\ ~result.npi_data[1].found
          /\ Failed("efetch") =>
                Complete /\ ~result.publications[1].publications_found

\* A run has ended in which the registry search, a search strategy and the
\* detail fetch each failed and were each issued once.
C30_Witness ==
    /\ pc = "done"
    /\ Failed("registry") /\ CountCalls("registry", 0) = 1
    /\ Failed("esearch") /\ CountCalls("esearch", 1) = 1
    /\ Failed("efetch") /\ CountCalls("efetch", 0) = 1
    /\ Complete

=============================================================================
